---- MODULE Spec2Model ----
(***************************************************************************)
(* Model of weaveworks/common: the dual-protocol server lifecycle          *)
(* (server/server.go: New, Run, Stop, Shutdown) and the HTTP-over-gRPC     *)
(* tunnel with its error/status mapping (httpgrpc).                        *)
(***************************************************************************)
EXTENDS Integers, Sequences, FiniteSets, TLC

(***************************************************************************)
(* Bounds of the model.                                                    *)
(***************************************************************************)
\* in-flight requests / calls tracked per sub-server
MaxInflight == 1
\* largest ServerGracefulShutdownTimeout (in clock ticks) a config carries
MaxTimeout == 1

(***************************************************************************)
(* Error values.                                                           *)
(***************************************************************************)
Nil == "nil"
ErrServerClosed == "http.ErrServerClosed"
ErrServerStopped == "grpc.ErrServerStopped"
ErrAccept == "accept: use of closed network connection"
ErrListenerClosed == "mux: listener closed"
ErrBothDisabled == "both gRPC and HTTP ports are disabled, at least one must be enabled"
ErrRouteNeedsBoth == "both gRPC and HTTP ports must be enabled to route HTTP to gRPC"
ErrBind == "listen: address already in use"
ErrHTTPTLS == "error generating http tls config"
ErrGRPCTLS == "error generating grpc tls config"

\* port value that disables a protocol (server.go:149,153,181,183)
PortDisabled == -1
HTTPPort == 80
GRPCPort == 9095

VARIABLES
    cfg,          \* the Config handed to New
    env,          \* the world New runs in: which binds and certificate loads succeed
    newPc,        \* "init" | "ok" | "failed": position/result of New
    newErr,       \* the error New returned
    srv,          \* the fields of the constructed *Server
    sock,         \* the OS sockets bound by net.Listen, per protocol
    eng,          \* state of the http.Server / grpc.Server / cmux engines
    quit,         \* the signal handler's quit channel is closed
    sig,          \* a SIGINT/SIGTERM was delivered to the default handler
    runPc,        \* "idle" | "blocked" | "returned": position of Run()
    runResult,    \* the value Run() returned
    errChan,      \* Run's errChan: a sequence of at most ErrChanCap values
    pc,           \* per goroutine started by Run: its position
    err,          \* per goroutine: its local err (the value Serve returned)
    rep,          \* per goroutine: the value it offered to errChan when reporting
    firstValue,   \* history: the first value any goroutine put on errChan
    shutPc,       \* position of Shutdown()
    timer,        \* ticks left on Shutdown's context deadline
    inflight,     \* in-flight requests (http) and calls (grpc)
    stopInTime,   \* history: Stop() ran while Run() was blocked and no serving routine had terminated
    failedFirst   \* history: a serve loop ended abnormally before any stop, signal or shutdown

lifeVars == <<cfg, env, newPc, newErr, srv, sock, eng, quit, sig, runPc, runResult,
              errChan, pc, err, rep, firstValue, shutPc, timer, inflight,
              stopInTime, failedFirst>>

VARIABLES
    tunOp,        \* the tunnel operation under way: "Handle" | "ErrorFromHTTPResponse" | "HTTPResponseFromError" | "none"
    tunPc,        \* "call" | "error" | "done": position of the tunnel operation
    tunReq,       \* the *types.HTTPRequest handed to Server.Handle
    tunRec,       \* the httptest.ResponseRecorder of Handle: what the replayed handler wrote
    tunResp,      \* the *types.HTTPResponse handed to ErrorFromHTTPResponse
    tunReply,     \* the *types.HTTPResponse Handle returned: <<>> for nil, <<r>> for &r
    tunErr,       \* the error Handle or ErrorFromHTTPResponse returned, the one HTTPResponseFromError is given
    tunOut        \* what HTTPResponseFromError returned: [resp, ok]

tunVars == <<tunOp, tunPc, tunReq, tunRec, tunResp, tunReply, tunErr, tunOut>>

VARIABLES
    cliPc,        \* Client.ServeHTTP: "idle" | "start" | "called" | "done" | "panic"
    cliResp,      \* the *types.HTTPResponse client.Handle returned: <<>> for nil, <<r>> for &r
    cliErr,       \* the error client.Handle returned
    cliW          \* the http.ResponseWriter of ServeHTTP: what its caller is sent

cliVars == <<cliPc, cliResp, cliErr, cliW>>

VARIABLES
    dialPc,       \* NewClient: "idle" | "call" | "done"
    dialIn,       \* the address NewClient is given, by its parts
    dialOut       \* what NewClient returned and what it dialed

dialVars == <<dialPc, dialIn, dialOut>>

VARIABLES
    shNext,       \* statsHandler.next != nil
    shLast,       \* the notification the stats handler was given last
    shFwd,        \* the calls of sh.next during that notification, in order
    shPut,        \* the calls of sh.putFn during that notification, in order
    shRet,        \* the context TagRPC or TagConn returned, none for the others
    resps,        \* the HTTPResponse messages of the server: the Body each references
    pool          \* respBufferPool: the buffers in it

statVars == <<shNext, shLast, shFwd, shPut, shRet, resps, pool>>

VARIABLES
    conns         \* per client connection: where it arrived, its first bytes and where it went

muxVars == <<conns>>

VARIABLES
    mwPc,         \* the HTTP handler chain: "idle" | "built" | "serving" | "done"
    mwCfg,        \* the Config fields setupHTTPServer builds the chain from
    mwHandler,    \* http.Server.Handler: the components a request meets, outermost first
    mwAt,         \* the part of the handler the request in flight has still before it
    mwTrace       \* history: the components the request has entered, in order

chainVars == <<mwPc, mwCfg, mwHandler, mwAt, mwTrace>>

VARIABLES
    obsPc,        \* the instrumentation interceptor: "idle" | "done"
    obsRoute,     \* info.FullMethod of the call, the observation's route label
    obsErr,       \* the error the handler returned to it
    obsLabel,     \* the status_code label of its observation
    obsRet        \* the error it returned

obsVars == <<obsPc, obsRoute, obsErr, obsLabel, obsRet>>

VARIABLES
    rpcKind,      \* the RPC under way: "unary" (Sleep) | "stream" (StreamSleep) | "none"
    rpcCall,      \* the client's call: "idle" | "started" | "sent" | "returned"
    rpcCallErr,   \* the error the call returned to the client
    rpcCancelled, \* the client has called cancel() on the call's context
    rpcSrv,       \* the server's handler: "none" | "pending" | "running" | "returned"
    rpcSrvDone,   \* the handler's context is Done
    rpcSrvErr,    \* the error the handler returned
    rpcSleep,     \* what is left of the handler's sleep, or of its sends
    rpcCancelledRunning  \* history: cancel() came while the handler was running

rpcVars == <<rpcKind, rpcCall, rpcCallErr, rpcCancelled, rpcSrv, rpcSrvDone, rpcSrvErr,
             rpcSleep, rpcCancelledRunning>>

VARIABLES
    tlsPc,        \* resolving TLS material: "idle" | "done"
    tlsProto,     \* the protocol whose TLSConfig is resolved
    tlsIn,        \* the TLS material the caller supplied for it
    tlsLoadOK,    \* the files named load and parse
    tlsOut        \* what getHTTPTLSConfig or getGRPCTLSConfig returned

tlsVars == <<tlsPc, tlsProto, tlsIn, tlsLoadOK, tlsOut>>

VARIABLES
    logKind,       \* the response writer in use: "badResponseLoggingWriter" |
                   \* "badResponseLogger" | "none"
    statusCode,    \* its statusCode field
    logBody,       \* its logBody field
    bodyBytesLeft, \* its bodyBytesLeft field
    buffer,        \* what it has captured: body chunks and truncation markers
    rwStatus,      \* the status the writer underneath has sent, 0 for none yet
    rwWritten,     \* the body bytes handed to the writer underneath
    logCalls       \* the calls made on the writer

logVars == <<logKind, statusCode, logBody, bodyBytesLeft, buffer, rwStatus, rwWritten,
             logCalls>>

VARIABLES
    injPc,         \* the outgoing request: "idle" | "ready"
    injCtx,        \* the IDs the context carries
    reqOrgIDs,     \* the request's X-Scope-OrgID header values
    reqUserID,     \* the request's X-Scope-UserID header value, "" for none
    injErr,        \* what the last injection returned
    injApplied,    \* history: the org-ID injections that returned nil
    injCalls       \* the injections called on the request

injVars == <<injPc, injCtx, reqOrgIDs, reqUserID, injErr, injApplied, injCalls>>

\* the smaller components
extVars == <<chainVars, obsVars, rpcVars, tlsVars, logVars, injVars>>

\* what the actions of one component leave alone
nonLifeVars == <<tunVars, cliVars, dialVars, statVars, muxVars, extVars>>
nonTunVars == <<lifeVars, cliVars, dialVars, statVars, muxVars, extVars>>
nonClientVars == <<lifeVars, dialVars, statVars, muxVars, extVars>>
nonDialVars == <<lifeVars, tunVars, cliVars, statVars, muxVars, extVars>>
nonStatVars == <<lifeVars, tunVars, cliVars, dialVars, muxVars, extVars>>
nonMuxVars == <<lifeVars, tunVars, cliVars, dialVars, statVars, extVars>>
nonExtVars == <<lifeVars, tunVars, cliVars, dialVars, statVars, muxVars>>

nonChainVars == <<nonExtVars, obsVars, rpcVars, tlsVars, logVars, injVars>>
nonObsVars == <<nonExtVars, chainVars, rpcVars, tlsVars, logVars, injVars>>
nonRpcVars == <<nonExtVars, chainVars, obsVars, tlsVars, logVars, injVars>>
nonTlsVars == <<nonExtVars, chainVars, obsVars, rpcVars, logVars, injVars>>
nonLogVars == <<nonExtVars, chainVars, obsVars, rpcVars, tlsVars, injVars>>
nonInjVars == <<nonExtVars, chainVars, obsVars, rpcVars, tlsVars, logVars>>

vars == <<lifeVars, tunVars, cliVars, dialVars, statVars, muxVars, extVars>>

(***************************************************************************)
(* Config (server.go:63-131, 181-183).                                     *)
(***************************************************************************)
Configs ==
    [ HTTPListenPort : {PortDisabled, HTTPPort},
      GRPCListenPort : {PortDisabled, GRPCPort},
      RouteHTTPToGRPC : BOOLEAN,
      HTTPTLS : BOOLEAN,      \* HTTPTLSConfig.TLSCertPath and TLSKeyPath both set
      GRPCTLS : BOOLEAN,      \* GRPCTLSConfig.TLSCertPath and TLSKeyPath both set
      SignalHandler : {"nil", "dummyHandler"},
      ServerGracefulShutdownTimeout : 0..MaxTimeout ]

GRPCEnabled(c) == c.GRPCListenPort # PortDisabled

HTTPEnabled(c) == c.HTTPListenPort # PortDisabled

Protocols == {"http", "grpc"}

Routines == {"watcher", "http", "grpc", "mux", "grpcOnHTTP"}

ServingRoutines == Routines \ {"watcher"}

\* the zero *Server: what the caller holds when New returns (nil, err)
NoServer ==
    [ httpListener |-> FALSE, grpcListener |-> FALSE, grpchttpmux |-> FALSE,
      grpcOnHTTPListener |-> FALSE, HTTPServer |-> FALSE, HTTPServerTLS |-> FALSE,
      GRPC |-> FALSE, GRPCOnHTTPServer |-> FALSE, handler |-> "nil" ]

(***************************************************************************)
(* Construction (server.go:210-342, 464-575, 577-664, 666-708).            *)
(***************************************************************************)
\* getHTTPTLSConfig: a TLS config only when both paths are set; loading may fail
getHTTPTLSConfig(c, loadOK) ==
    IF c.HTTPTLS
    THEN IF loadOK THEN [tls |-> TRUE, err |-> Nil] ELSE [tls |-> FALSE, err |-> ErrHTTPTLS]
    ELSE [tls |-> FALSE, err |-> Nil]

getGRPCTLSConfig(c, loadOK) ==
    IF c.GRPCTLS
    THEN IF loadOK THEN [tls |-> TRUE, err |-> Nil] ELSE [tls |-> FALSE, err |-> ErrGRPCTLS]
    ELSE [tls |-> FALSE, err |-> Nil]

\* setupHTTPServer on server fields s and sockets k: binds, optionally splits
\* the listener with cmux, resolves TLS, and only then assigns the fields
setupHTTPServer(c, s, k, bindOK, loadOK) ==
    IF ~bindOK
    THEN [err |-> ErrBind, srv |-> s, sock |-> k]
    ELSE LET k2 == [k EXCEPT !["http"] = "open"]
             t == getHTTPTLSConfig(c, loadOK)
         IN  IF t.err # Nil
             THEN [err |-> t.err, srv |-> s, sock |-> k2]
             ELSE [err |-> Nil,
                   srv |-> [s EXCEPT !.httpListener = TRUE,
                                     !.grpcOnHTTPListener = c.RouteHTTPToGRPC,
                                     !.grpchttpmux = c.RouteHTTPToGRPC,
                                     !.HTTPServer = TRUE,
                                     !.HTTPServerTLS = t.tls],
                   sock |-> k2]

setupGRPCServer(c, s, k, bindOK, loadOK) ==
    IF ~bindOK
    THEN [err |-> ErrBind, srv |-> s, sock |-> k]
    ELSE LET k2 == [k EXCEPT !["grpc"] = "open"]
             t == getGRPCTLSConfig(c, loadOK)
         IN  IF t.err # Nil
             THEN [err |-> t.err, srv |-> s, sock |-> k2]
             ELSE [err |-> Nil,
                   srv |-> [s EXCEPT !.grpcListener = TRUE,
                                     !.GRPC = TRUE,
                                     !.GRPCOnHTTPServer = TRUE],
                   sock |-> k2]

\* a New without the check below
BothDisabledNever(c) == FALSE

\* if !cfg.GRPCEnabled() && !cfg.HTTPEnabled()
BothDisabled(c) == ~GRPCEnabled(c) /\ ~HTTPEnabled(c)

\* a New without the check below
RouteNeedsBothNever(c) == FALSE

\* if cfg.RouteHTTPToGRPC && (!cfg.HTTPEnabled() || !cfg.GRPCEnabled())
RouteNeedsBoth(c) == c.RouteHTTPToGRPC /\ (~HTTPEnabled(c) \/ ~GRPCEnabled(c))

\* New(cfg) under environment e (which binds and certificate loads succeed)
NewResult(c, e) ==
    LET k0 == [p \in Protocols |-> "unbound"] IN
    IF BothDisabled(c)
    THEN [err |-> ErrBothDisabled, srv |-> NoServer, sock |-> k0]
    ELSE IF RouteNeedsBoth(c)
    THEN [err |-> ErrRouteNeedsBoth, srv |-> NoServer, sock |-> k0]
    ELSE
      LET h == IF HTTPEnabled(c)
               THEN setupHTTPServer(c, NoServer, k0, e.bindHTTP, e.loadHTTP)
               ELSE [err |-> Nil, srv |-> NoServer, sock |-> k0]
      IN  IF h.err # Nil
          THEN [err |-> h.err, srv |-> NoServer, sock |-> h.sock]
          ELSE
            LET g == IF GRPCEnabled(c)
                     THEN setupGRPCServer(c, h.srv, h.sock, e.bindGRPC, e.loadGRPC)
                     ELSE h
            IN  IF g.err # Nil
                THEN [err |-> g.err, srv |-> NoServer, sock |-> g.sock]
                ELSE [err |-> Nil,
                      srv |-> [g.srv EXCEPT !.handler =
                                 IF c.SignalHandler = "nil" THEN "default" ELSE c.SignalHandler],
                      sock |-> g.sock]

Envs == [bindHTTP : BOOLEAN, loadHTTP : BOOLEAN, bindGRPC : BOOLEAN, loadGRPC : BOOLEAN]

New ==
    /\ newPc = "init"
    /\ LET r == NewResult(cfg, env) IN
         /\ newPc' = IF r.err = Nil THEN "ok" ELSE "failed"
         /\ newErr' = r.err
         /\ srv' = r.srv
         /\ sock' = r.sock
    /\ UNCHANGED <<nonLifeVars, cfg, env, eng, quit, sig, runPc, runResult, errChan, pc, err, rep,
                   firstValue, shutPc, timer, inflight, stopInTime, failedFirst>>

\* HTTPListenAddr / GRPCListenAddr: nil exactly when the listener field is nil
HTTPListenAddr(s) == IF ~s.httpListener THEN Nil ELSE "addr:http"

GRPCListenAddr(s) == IF ~s.grpcListener THEN Nil ELSE "addr:grpc"

(***************************************************************************)
(* Run (server.go:358-415): a stop/signal watcher and one serving routine   *)
(* per sub-server, all reporting on errChan with a non-blocking send.      *)
(***************************************************************************)
\* errChan := make(chan error, 1)
ErrChanCap == 1

\* firstValue before any send
None == "none"

\* the goroutines Run starts for server s
Started(s, r) ==
    CASE r = "watcher" -> TRUE
      [] r = "http" -> s.HTTPServer
      [] r = "grpc" -> s.GRPC
      [] r = "mux" -> s.grpchttpmux
      [] r = "grpcOnHTTP" -> s.grpchttpmux

Run ==
    /\ newPc = "ok"
    /\ runPc = "idle"
    /\ runPc' = "blocked"
    /\ errChan' = <<>>
    /\ pc' = [r \in Routines |-> IF Started(srv, r) THEN "spawned" ELSE "none"]
    /\ UNCHANGED <<nonLifeVars, cfg, env, newPc, newErr, srv, sock, eng, quit, sig, runResult, err, rep,
                   firstValue, shutPc, timer, inflight, stopInTime, failedFirst>>

\* a send that replaces what the channel holds
TrySendOverwrite(ch, v) == <<v>>

\* select { case errChan <- v: default: }  -- the channel after the send
TrySend(ch, v) == IF Len(ch) < ErrChanCap THEN Append(ch, v) ELSE ch

\* the send above can always be taken: it has a default branch
CanReport(ch) == TRUE

\* a routine that drops every error
httpNormaliseAll(e) == Nil

\* the HTTP routine: if err == http.ErrServerClosed { err = nil }
httpNormalise(e) == IF e = ErrServerClosed THEN Nil ELSE e

\* a handleGRPCError that passes the sentinel on
handleGRPCErrorNone(e) == e

\* handleGRPCError: if err == grpc.ErrServerStopped { err = nil }
handleGRPCError(e) == IF e = ErrServerStopped THEN Nil ELSE e

\* the value a routine puts on errChan, from the value its blocking call returned
Outcome(r, e) ==
    CASE r = "watcher" -> Nil
      [] r = "http" -> httpNormalise(e)
      [] OTHER -> handleGRPCError(e)

\* the socket a routine's listener closes when its Serve returns
ListenerSock(r) == IF r = "grpc" THEN "grpc" ELSE "http"

\* no stop, signal or shutdown has happened so far
Quiet == ~quit /\ ~sig /\ shutPc = "idle"

\* entering the blocking call: Loop(), Serve(l), ServeTLS(l), cmux Serve()
\* http.Server.Serve after Shutdown returns ErrServerClosed at once and
\* grpc.Server.Serve after a stop returns ErrServerStopped at once; both close l
ServeEntryError(r) ==
    CASE r = "http" /\ eng["http"] # "new" -> ErrServerClosed
      [] r = "grpc" /\ eng["grpc"] # "new" -> ErrServerStopped
      [] OTHER -> Nil

Serve(r) ==
    /\ pc[r] = "spawned"
    /\ LET e == ServeEntryError(r) IN
       IF e = Nil
       THEN /\ pc' = [pc EXCEPT ![r] = "serving"]
            /\ UNCHANGED <<err, sock>>
       ELSE /\ pc' = [pc EXCEPT ![r] = "reporting"]
            /\ err' = [err EXCEPT ![r] = e]
            /\ sock' = [sock EXCEPT ![ListenerSock(r)] = "closed"]
    /\ UNCHANGED <<nonLifeVars, cfg, env, newPc, newErr, srv, eng, quit, sig, runPc, runResult, errChan,
                   rep, firstValue, shutPc, timer, inflight, stopInTime, failedFirst>>

\* the blocking call can return, and the value it returns
\*   watcher: Loop returns on a closed quit channel (or, default handler, a signal)
\*   http:    ErrServerClosed once shut down, else the listener's accept error
\*   grpc:    nil once stopped, else the listener's accept error
\*   mux:     the root listener's accept error
\*   grpcOnHTTP: the error of its mux listener once the mux has exited
LoopReturnsDummy == quit

LoopReturnsDefault == quit \/ sig

ServeExit(r) ==
    CASE r = "watcher" ->
           IF srv.handler = "default"
           THEN [can |-> LoopReturnsDefault, e |-> Nil]
           ELSE [can |-> LoopReturnsDummy, e |-> Nil]
      [] r = "http" ->
           IF eng["http"] # "new" THEN [can |-> TRUE, e |-> ErrServerClosed]
           ELSE IF srv.grpchttpmux
                THEN [can |-> eng["mux"] = "exited", e |-> ErrListenerClosed]
                ELSE [can |-> sock["http"] = "closed", e |-> ErrAccept]
      [] r = "grpc" ->
           IF eng["grpc"] # "new" THEN [can |-> TRUE, e |-> Nil]
           ELSE [can |-> sock["grpc"] = "closed", e |-> ErrAccept]
      [] r = "mux" -> [can |-> sock["http"] = "closed", e |-> ErrAccept]
      [] r = "grpcOnHTTP" -> [can |-> eng["mux"] = "exited", e |-> ErrListenerClosed]

ServeReturns(r) ==
    /\ pc[r] = "serving"
    /\ ServeExit(r).can
    /\ pc' = [pc EXCEPT ![r] = "reporting"]
    /\ err' = [err EXCEPT ![r] = ServeExit(r).e]
    /\ sock' = IF r = "watcher" THEN sock
               ELSE [sock EXCEPT ![ListenerSock(r)] = "closed"]
    /\ eng' = IF r = "mux" THEN [eng EXCEPT !["mux"] = "exited"] ELSE eng
    /\ failedFirst' = (failedFirst \/ (r # "watcher" /\ Quiet /\ Outcome(r, ServeExit(r).e) # Nil))
    /\ UNCHANGED <<nonLifeVars, cfg, env, newPc, newErr, srv, quit, sig, runPc, runResult, errChan,
                   rep, firstValue, shutPc, timer, inflight, stopInTime>>

Report(r) ==
    /\ pc[r] = "reporting"
    /\ CanReport(errChan)
    /\ LET v == Outcome(r, err[r])
           taken == Len(errChan) < ErrChanCap
       IN  /\ errChan' = TrySend(errChan, v)
           /\ rep' = [rep EXCEPT ![r] = v]
           /\ firstValue' = IF firstValue = None /\ taken THEN v ELSE firstValue
    /\ pc' = [pc EXCEPT ![r] = "done"]
    /\ UNCHANGED <<nonLifeVars, cfg, env, newPc, newErr, srv, sock, eng, quit, sig, runPc, runResult,
                   err, shutPc, timer, inflight, stopInTime, failedFirst>>

\* return <-errChan
\* a Run that closes the listeners as it returns
RunReturnsClosing ==
    /\ runPc = "blocked"
    /\ errChan # <<>>
    /\ runResult' = Head(errChan)
    /\ errChan' = Tail(errChan)
    /\ runPc' = "returned"
    /\ sock' = [p \in Protocols |-> IF sock[p] = "open" THEN "closed" ELSE sock[p]]
    /\ UNCHANGED <<nonLifeVars, cfg, env, newPc, newErr, srv, eng, quit, sig, pc, err, rep,
                   firstValue, shutPc, timer, inflight, stopInTime, failedFirst>>

\* return <-errChan
RunReturns ==
    /\ runPc = "blocked"
    /\ errChan # <<>>
    /\ runResult' = Head(errChan)
    /\ errChan' = Tail(errChan)
    /\ runPc' = "returned"
    /\ UNCHANGED <<nonLifeVars, cfg, env, newPc, newErr, srv, sock, eng, quit, sig, pc, err, rep,
                   firstValue, shutPc, timer, inflight, stopInTime, failedFirst>>

(***************************************************************************)
(* Stop (server.go:446-449), signals, and the environment.                 *)
(***************************************************************************)
NoneTerminated == \A r \in ServingRoutines : pc[r] \in {"none", "spawned", "serving"}

\* a Stop that does not reach the handler: quit stays open
StopWithoutHandler ==
    /\ newPc = "ok"
    /\ ~quit
    /\ ~stopInTime
    /\ stopInTime' = (runPc = "blocked" /\ NoneTerminated)
    /\ UNCHANGED <<nonLifeVars, cfg, env, newPc, newErr, srv, sock, eng, quit, sig, runPc, runResult, errChan,
                   pc, err, rep, firstValue, shutPc, timer, inflight, failedFirst>>

\* s.handler.Stop(): close(quit)
Stop ==
    /\ newPc = "ok"
    /\ ~quit
    /\ quit' = TRUE
    /\ stopInTime' = (stopInTime \/ (runPc = "blocked" /\ NoneTerminated))
    /\ UNCHANGED <<nonLifeVars, cfg, env, newPc, newErr, srv, sock, eng, sig, runPc, runResult, errChan,
                   pc, err, rep, firstValue, shutPc, timer, inflight, failedFirst>>

\* SIGINT / SIGTERM delivered while the default handler's Loop is registered
Signal ==
    /\ newPc = "ok"
    /\ srv.handler = "default"
    /\ pc["watcher"] = "serving"
    /\ ~sig
    /\ sig' = TRUE
    /\ UNCHANGED <<nonLifeVars, cfg, env, newPc, newErr, srv, sock, eng, quit, runPc, runResult, errChan,
                   pc, err, rep, firstValue, shutPc, timer, inflight, stopInTime, failedFirst>>

\* a listener closed underneath its server (server_test.go:89,106,460,477)
CloseListener(p) ==
    /\ newPc = "ok"
    /\ sock[p] = "open"
    /\ sock' = [sock EXCEPT ![p] = "closed"]
    /\ UNCHANGED <<nonLifeVars, cfg, env, newPc, newErr, srv, eng, quit, sig, runPc, runResult, errChan,
                   pc, err, rep, firstValue, shutPc, timer, inflight, stopInTime, failedFirst>>

\* a request (http) or call (grpc) is accepted by a serving sub-server
StartRequest(p) ==
    /\ pc[p] = "serving"
    /\ eng[p] = "new"
    /\ sock[p] = "open"
    /\ (p = "http" /\ srv.grpchttpmux) => pc["mux"] = "serving"
    /\ inflight[p] < MaxInflight
    /\ inflight' = [inflight EXCEPT ![p] = @ + 1]
    /\ UNCHANGED <<nonLifeVars, cfg, env, newPc, newErr, srv, sock, eng, quit, sig, runPc, runResult, errChan,
                   pc, err, rep, firstValue, shutPc, timer, stopInTime, failedFirst>>

FinishRequest(p) ==
    /\ inflight[p] > 0
    /\ inflight' = [inflight EXCEPT ![p] = @ - 1]
    /\ UNCHANGED <<nonLifeVars, cfg, env, newPc, newErr, srv, sock, eng, quit, sig, runPc, runResult, errChan,
                   pc, err, rep, firstValue, shutPc, timer, stopInTime, failedFirst>>

(***************************************************************************)
(* Shutdown (server.go:451-462).                                           *)
(***************************************************************************)
\* ctx, cancel := context.WithTimeout(context.Background(), timeout)
Shutdown ==
    /\ newPc = "ok"
    /\ shutPc = "idle"
    /\ shutPc' = "http"
    /\ timer' = cfg.ServerGracefulShutdownTimeout
    /\ UNCHANGED <<nonLifeVars, cfg, env, newPc, newErr, srv, sock, eng, quit, sig, runPc, runResult, errChan,
                   pc, err, rep, firstValue, inflight, stopInTime, failedFirst>>

\* the context's deadline draws nearer
Tick ==
    /\ shutPc \in {"http", "httpWait", "grpc", "grpcWait"}
    /\ timer > 0
    /\ timer' = timer - 1
    /\ UNCHANGED <<nonLifeVars, cfg, env, newPc, newErr, srv, sock, eng, quit, sig, runPc, runResult, errChan,
                   pc, err, rep, firstValue, shutPc, inflight, stopInTime, failedFirst>>

\* if s.HTTPServer != nil { s.HTTPServer.Shutdown(ctx) }: stop accepting
\* (the listeners Serve has registered are closed), then wait
ShutdownHTTP ==
    /\ shutPc = "http"
    /\ IF srv.HTTPServer
       THEN /\ eng' = [eng EXCEPT !["http"] = "shutdown"]
            /\ sock' = IF pc["http"] = "serving"
                       THEN [sock EXCEPT !["http"] = "closed"] ELSE sock
            /\ shutPc' = "httpWait"
       ELSE /\ shutPc' = "grpc"
            /\ UNCHANGED <<eng, sock>>
    /\ UNCHANGED <<nonLifeVars, cfg, env, newPc, newErr, srv, quit, sig, runPc, runResult, errChan,
                   pc, err, rep, firstValue, timer, inflight, stopInTime, failedFirst>>

\* a drain that ignores ctx
HTTPDrainDoneNoDeadline(n, t) == n = 0

\* HTTPServer.Shutdown(ctx) returns: every connection idle, or ctx is done
HTTPDrainDone(n, t) == n = 0 \/ t = 0

ShutdownHTTPReturns ==
    /\ shutPc = "httpWait"
    /\ HTTPDrainDone(inflight["http"], timer)
    /\ shutPc' = "grpc"
    /\ UNCHANGED <<nonLifeVars, cfg, env, newPc, newErr, srv, sock, eng, quit, sig, runPc, runResult, errChan,
                   pc, err, rep, firstValue, timer, inflight, stopInTime, failedFirst>>

\* if s.GRPC != nil { s.GRPC.GracefulStop() }: stop accepting, then wait
ShutdownGRPC ==
    /\ shutPc = "grpc"
    /\ IF srv.GRPC
       THEN /\ eng' = [eng EXCEPT !["grpc"] = "stopping"]
            /\ sock' = IF pc["grpc"] = "serving"
                       THEN [sock EXCEPT !["grpc"] = "closed"] ELSE sock
            /\ shutPc' = "grpcWait"
       ELSE /\ shutPc' = "returned"
            /\ UNCHANGED <<eng, sock>>
    /\ UNCHANGED <<nonLifeVars, cfg, env, newPc, newErr, srv, quit, sig, runPc, runResult, errChan,
                   pc, err, rep, firstValue, timer, inflight, stopInTime, failedFirst>>

\* a graceful stop that gave up at the deadline
GracefulStopDoneByDeadline(n, t) == n = 0 \/ t = 0

\* GracefulStop returns: every in-flight call has finished; it takes no context
GracefulStopDone(n, t) == n = 0

ShutdownGRPCReturns ==
    /\ shutPc = "grpcWait"
    /\ GracefulStopDone(inflight["grpc"], timer)
    /\ eng' = [eng EXCEPT !["grpc"] = "stopped"]
    /\ shutPc' = "returned"
    /\ UNCHANGED <<nonLifeVars, cfg, env, newPc, newErr, srv, sock, quit, sig, runPc, runResult, errChan,
                   pc, err, rep, firstValue, timer, inflight, stopInTime, failedFirst>>

ShutdownStep == ShutdownHTTP \/ ShutdownHTTPReturns \/ ShutdownGRPC \/ ShutdownGRPCReturns

(***************************************************************************)
(* The HTTP-over-gRPC tunnel: values.                                      *)
(* A string or []byte is the sequence of its bytes; a nil pointer is <<>>  *)
(* and &x is <<x>>.                                                        *)
(***************************************************************************)
\* longest body (and status message) in bytes
MaxBody == 2
\* most values a header key carries
MaxValues == 1
\* most headers an encoded response lists
MaxHeaders == 2
\* most details a status error carries
MaxDetails == 2

\* all sequences over S of length at most n
SeqUpTo(S, n) == UNION {[1..k -> S] : k \in 0..n}

\* bodies: "", "4", "44", ...
Bodies == SeqUpTo({52}, MaxBody)
\* header keys "K" and "k", which differ by case only
Keys == {<<75>>, <<107>>}
\* header values "" and "v"
Values == {<<>>, <<118>>}
ValueLists == SeqUpTo(Values, MaxValues)

\* types.Header and types.HTTPResponse (the fields httpgrpc.go reads and writes)
Headers == [Key : Keys \cup {<<>>}, Values : ValueLists]
ZeroResponse == [Code |-> 0, Headers |-> <<>>, Body |-> <<>>]

\* http.Header: a map from key to value list
HeaderMaps == UNION {[D -> ValueLists] : D \in SUBSET Keys}

\* Go error values: nil, an error that carries no gRPC status, and the
\* statusError of grpc/status with the spb.Status it wraps
NilError == [kind |-> "nil", Code |-> 0, Message |-> <<>>, Details |-> <<>>]
PlainError(text) == [kind |-> "error", Code |-> 0, Message |-> text, Details |-> <<>>]
StatusError(c, m, ds) == [kind |-> "status", Code |-> c, Message |-> m, Details |-> ds]

\* context.Canceled, "context canceled", and fmt.Errorf(prefix + "%w",
\* context.Canceled): errors.Is finds context.Canceled in both, and neither
\* has a GRPCStatus method
ContextCanceled == <<99, 111, 110, 116, 101, 120, 116, 32, 99, 97, 110, 99, 101, 108, 101, 100>>
WrapsCanceled(prefix) ==
    [kind |-> "canceled", Code |-> 0, Message |-> prefix \o ContextCanceled, Details |-> <<>>]
\* "something failed: "
SomethingFailed ==
    <<115, 111, 109, 101, 116, 104, 105, 110, 103, 32, 102, 97, 105, 108, 101, 100, 58, 32>>

\* a type URL is the sequence of its "/"-separated segments
HTTPResponseName == "httpgrpc.HTTPResponse"
HTTPResponseUrl == <<"type.googleapis.com", HTTPResponseName>>

(***************************************************************************)
(* The protobuf wire format of types.HTTPResponse, as proto.Marshal and    *)
(* proto.Unmarshal write and read it for ptypes.MarshalAny/UnmarshalAny.   *)
(* All integers of the model stay far below 2^31.                          *)
(***************************************************************************)
RECURSIVE Varint(_)
Varint(n) == IF n < 128 THEN <<n>> ELSE <<(n % 128) + 128>> \o Varint(n \div 128)

\* the wire types of the format
Wire == [Varint |-> 0, Fixed64 |-> 1, Bytes |-> 2, StartGroup |-> 3, EndGroup |-> 4,
         Fixed32 |-> 5]

Tag(num, wt) == Varint(num * 8 + wt)
LengthDelimited(num, b) == Tag(num, Wire.Bytes) \o Varint(Len(b)) \o b

RECURSIVE Concat(_)
Concat(ss) == IF ss = <<>> THEN <<>> ELSE Head(ss) \o Concat(Tail(ss))

\* Header.Marshal: an empty Key is left out, every value is written
HeaderMarshal(h) ==
    (IF Len(h.Key) > 0 THEN LengthDelimited(1, h.Key) ELSE <<>>)
        \o Concat([i \in 1..Len(h.Values) |-> LengthDelimited(2, h.Values[i])])

\* HTTPResponse.Marshal: a zero Code and an empty Body are left out
HTTPResponseMarshal(r) ==
    (IF r.Code # 0 THEN Tag(1, Wire.Varint) \o Varint(r.Code) ELSE <<>>)
        \o Concat([i \in 1..Len(r.Headers) |->
                      LengthDelimited(2, HeaderMarshal(r.Headers[i]))])
        \o (IF Len(r.Body) > 0 THEN LengthDelimited(3, r.Body) ELSE <<>>)

\* the outcome of a failed read
Bad == [ok |-> FALSE, val |-> 0, next |-> 0]

\* read a varint at b[i]: its value and the index after it (the varints of
\* the model are at most four bytes long)
RECURSIVE ReadVarintFrom(_, _, _, _)
ReadVarintFrom(b, i, mul, acc) ==
    IF i > Len(b) \/ mul > 128 * 128 * 128 THEN Bad
    ELSE IF b[i] < 128 THEN [ok |-> TRUE, val |-> acc + b[i] * mul, next |-> i + 1]
    ELSE ReadVarintFrom(b, i + 1, mul * 128, acc + (b[i] - 128) * mul)

ReadVarint(b, i) == ReadVarintFrom(b, i, 1, 0)

\* read a length and that many bytes at b[i]
ReadBytes(b, i) ==
    LET n == ReadVarint(b, i) IN
    IF ~n.ok THEN Bad
    ELSE IF n.next + n.val - 1 > Len(b) THEN Bad
    ELSE [ok |-> TRUE, val |-> SubSeq(b, n.next, n.next + n.val - 1),
          next |-> n.next + n.val]

\* skip one field of an unknown number, groups included
RECURSIVE SkipFrom(_, _, _)
SkipFrom(b, i, depth) ==
    LET t == ReadVarint(b, i)
        wt == t.val % 8
        after ==
            CASE wt = Wire.Varint -> ReadVarint(b, t.next)
              [] wt = Wire.Fixed64 -> [ok |-> TRUE, val |-> 0, next |-> t.next + 8]
              [] wt = Wire.Bytes -> ReadBytes(b, t.next)
              [] wt = Wire.Fixed32 -> [ok |-> TRUE, val |-> 0, next |-> t.next + 4]
              [] wt = Wire.StartGroup -> [ok |-> TRUE, val |-> 1, next |-> t.next]
              [] wt = Wire.EndGroup -> [ok |-> depth > 0, val |-> -1, next |-> t.next]
              [] OTHER -> Bad
        d == IF after.ok /\ wt \in {Wire.StartGroup, Wire.EndGroup}
             THEN depth + after.val ELSE depth
    IN  IF ~t.ok \/ ~after.ok \/ after.next > Len(b) + 1 THEN Bad
        ELSE IF d = 0 THEN [ok |-> TRUE, val |-> 0, next |-> after.next]
        ELSE SkipFrom(b, after.next, d)

Skip(b, i) == SkipFrom(b, i, 0)

\* Header.Unmarshal from b[i..]: Key is field 1, Values is field 2
RECURSIVE HeaderUnmarshalFrom(_, _, _)
HeaderUnmarshalFrom(b, i, h) ==
    IF i > Len(b) THEN [ok |-> TRUE, val |-> h, next |-> i]
    ELSE
        LET t == ReadVarint(b, i)
            num == t.val \div 8
            wt == t.val % 8
            f == ReadBytes(b, t.next)
            s == Skip(b, i)
        IN  IF ~t.ok \/ wt = Wire.EndGroup \/ num <= 0 THEN Bad
            ELSE IF num \in {1, 2} THEN
                IF wt # Wire.Bytes \/ ~f.ok THEN Bad
                ELSE IF num = 1
                THEN HeaderUnmarshalFrom(b, f.next, [h EXCEPT !.Key = f.val])
                ELSE HeaderUnmarshalFrom(b, f.next,
                                         [h EXCEPT !.Values = Append(@, f.val)])
            ELSE IF ~s.ok THEN Bad
            ELSE HeaderUnmarshalFrom(b, s.next, h)

HeaderUnmarshal(b) == HeaderUnmarshalFrom(b, 1, [Key |-> <<>>, Values |-> <<>>])

\* HTTPResponse.Unmarshal from b[i..]: Code is field 1, Headers is field 2,
\* Body is field 3; a field met twice overwrites (Code, Body) or appends
\* (Headers); a field of another number is skipped
RECURSIVE HTTPResponseUnmarshalFrom(_, _, _)
HTTPResponseUnmarshalFrom(b, i, r) ==
    IF i > Len(b) THEN [ok |-> TRUE, val |-> r, next |-> i]
    ELSE
        LET t == ReadVarint(b, i)
            num == t.val \div 8
            wt == t.val % 8
            v == ReadVarint(b, t.next)
            f == ReadBytes(b, t.next)
            h == HeaderUnmarshal(f.val)
            s == Skip(b, i)
        IN  IF ~t.ok \/ wt = Wire.EndGroup \/ num <= 0 THEN Bad
            ELSE IF num = 1 THEN
                IF wt # Wire.Varint \/ ~v.ok THEN Bad
                ELSE HTTPResponseUnmarshalFrom(b, v.next, [r EXCEPT !.Code = v.val])
            ELSE IF num = 2 THEN
                IF wt # Wire.Bytes \/ ~f.ok \/ ~h.ok THEN Bad
                ELSE HTTPResponseUnmarshalFrom(b, f.next,
                                               [r EXCEPT !.Headers = Append(@, h.val)])
            ELSE IF num = 3 THEN
                IF wt # Wire.Bytes \/ ~f.ok THEN Bad
                ELSE HTTPResponseUnmarshalFrom(b, f.next, [r EXCEPT !.Body = f.val])
            ELSE IF ~s.ok THEN Bad
            ELSE HTTPResponseUnmarshalFrom(b, s.next, r)

HTTPResponseUnmarshal(b) == HTTPResponseUnmarshalFrom(b, 1, ZeroResponse)

\* ptypes.MarshalAny: the message's bytes under the type URL of its name
MarshalAny(r) == [TypeUrl |-> HTTPResponseUrl, Value |-> HTTPResponseMarshal(r)]

\* ptypes.AnyMessageName: what follows the last "/" of the type URL; a URL
\* without "/" is invalid
AnyMessageName(a) ==
    IF Len(a.TypeUrl) < 2 THEN [ok |-> FALSE, name |-> ""]
    ELSE [ok |-> TRUE, name |-> a.TypeUrl[Len(a.TypeUrl)]]

\* ptypes.UnmarshalAny into an HTTPResponse: the name must be HTTPResponse's
\* and the bytes must parse
UnmarshalAny(a) ==
    LET n == AnyMessageName(a) IN
    IF ~n.ok \/ n.name # HTTPResponseName THEN Bad
    ELSE HTTPResponseUnmarshal(a.Value)

(***************************************************************************)
(* grpc/status (client.go:198, 208, 214).                                  *)
(***************************************************************************)
\* status.ErrorProto: nil for codes.OK, else the statusError of the proto
ErrorProto(c, m, ds) == IF c = 0 THEN NilError ELSE StatusError(c, m, ds)

\* status.FromError followed by Status.Proto: nil is the OK status; an error
\* without a status is codes.Unknown with its text, and ok is false
FromError(e) ==
    CASE e.kind = "nil" -> [Code |-> 0, Message |-> <<>>, Details |-> <<>>, ok |-> TRUE]
      [] e.kind = "status" ->
            [Code |-> e.Code, Message |-> e.Message, Details |-> e.Details, ok |-> TRUE]
      [] OTHER -> [Code |-> 2, Message |-> e.Message, Details |-> <<>>, ok |-> FALSE]

(***************************************************************************)
(* ErrorFromHTTPResponse and HTTPResponseFromError (client.go:192-226).    *)
(***************************************************************************)
\* the error with code and message only
ErrorFromHTTPResponseNoDetail(resp) == ErrorProto(resp.Code, resp.Body, <<>>)

\* MarshalAny of a well-formed message does not fail
ErrorFromHTTPResponse(resp) == ErrorProto(resp.Code, resp.Body, <<MarshalAny(resp)>>)

NoResponse == [resp |-> <<>>, ok |-> FALSE]

\* the status the test of HTTPResponseFromError expects for a cancelled
\* request (httpgrpc_test.go:16); the package under src/ does not define it
StatusClientClosedRequest == 499

\* len(status.Details) >= 1
SomeDetail(n) == n >= 1

\* len(status.Details) == 1
OneDetail(n) == n = 1

HTTPResponseFromError(e) ==
    LET s == FromError(e) IN
    IF ~s.ok THEN NoResponse
    ELSE IF ~OneDetail(Len(s.Details)) THEN NoResponse
    ELSE LET u == UnmarshalAny(s.Details[1]) IN
         IF ~u.ok THEN NoResponse
         ELSE [resp |-> <<u.val>>, ok |-> TRUE]

(***************************************************************************)
(* Server.Handle (httpgrpc.go:38-58) and the header conversions            *)
(* (httpgrpc.go:163-178).                                                  *)
(***************************************************************************)
\* the requests Handle is given: http.NewRequest takes "" for GET, rejects a
\* method that is no token and a URL that does not parse
Methods == {"GET", "", "BAD METHOD"}
Urls == {"/foo", "%zz"}
Requests == [Method : Methods, Url : Urls]

\* "net/http: invalid method" and "invalid URL escape"
ErrInvalidMethod == PlainError(<<105, 110, 118, 97, 108, 105, 100, 32, 109, 101, 116, 104, 111, 100>>)
ErrInvalidURL == PlainError(<<105, 110, 118, 97, 108, 105, 100, 32, 85, 82, 76, 32, 101, 115, 99, 97, 112, 101>>)

NewRequest(r) ==
    IF r.Method = "BAD METHOD" THEN ErrInvalidMethod
    ELSE IF r.Url = "%zz" THEN ErrInvalidURL
    ELSE NilError

\* the statuses a handler can write to the recorder: WriteHeader takes 100..999
HandlerCodes == {200, 402, 499, 500, 503, 599, 600, 999}

\* the bodies a handler can write: text, and a byte that occurs in no UTF-8
HandlerBodies == Bodies \cup {<<255>>}

\* no recorder yet, and the recorder after the handler has run
NoRecorder == [ran |-> FALSE, Code |-> 0, Header |-> <<>>, Body |-> <<>>]
Recorded(code, header, body) ==
    [ran |-> TRUE, Code |-> code, Header |-> header, Body |-> body]

\* the orders in which a range over a map with keys S can visit them
Orders(S) ==
    {o \in [1..Cardinality(S) -> S] : \A i, j \in DOMAIN o : i # j => o[i] # o[j]}

\* fromHeader: one types.Header per key, in the order the range visits the
\* map, which Go leaves open: the set of the lists it can return
fromHeader(hs) ==
    {[i \in DOMAIN o |-> [Key |-> o[i], Values |-> hs[o[i]]]] : o \in Orders(DOMAIN hs)}

\* textproto.CanonicalMIMEHeaderKey on the keys of the model: "k" is "K"
CanonicalKey(k) == IF k = <<107>> THEN <<75>> ELSE k

\* header[CanonicalKey(h.Key)] = h.Values for each h in turn
RECURSIVE toHeaderCanonical(_, _)
toHeaderCanonical(hs, header) ==
    IF hs = <<>> THEN header
    ELSE toHeaderCanonical(Tail(hs),
                  [k \in (DOMAIN header) \cup {CanonicalKey(Head(hs).Key)} |->
                      IF k = CanonicalKey(Head(hs).Key) THEN Head(hs).Values
                      ELSE header[k]])

\* toHeader: header[h.Key] = h.Values for each h in turn
RECURSIVE toHeader(_, _)
toHeader(hs, header) ==
    IF hs = <<>> THEN header
    ELSE toHeader(Tail(hs),
                  [k \in (DOMAIN header) \cup {Head(hs).Key} |->
                      IF k = Head(hs).Key THEN Head(hs).Values ELSE header[k]])

\* recorder.Code >= 500
IsServerErrorOrAbove(code) == code >= 500

\* recorder.Code/100 == 5
IsServerError(code) == code \div 100 = 5

\* The replayed handler is any handler: it writes any status, headers and
\* body, whatever the request's headers and body, which are not tracked.
\* The codes are far inside int32.
Handle ==
    /\ tunOp = "Handle"
    /\ tunPc = "call"
    /\ LET e == NewRequest(tunReq) IN
       IF e # NilError
       THEN /\ tunRec' = tunRec
            /\ tunReply' = <<>>
            /\ tunErr' = e
       ELSE \E code \in HandlerCodes, header \in HeaderMaps, body \in HandlerBodies :
            \E hs \in fromHeader(header) :
                LET resp == [Code |-> code, Headers |-> hs, Body |-> body] IN
                /\ tunRec' = Recorded(code, header, body)
                /\ IF IsServerError(code)
                   THEN /\ tunReply' = <<>>
                        /\ tunErr' = ErrorFromHTTPResponse(resp)
                   ELSE /\ tunReply' = <<resp>>
                        /\ tunErr' = e
    /\ tunPc' = "done"
    /\ UNCHANGED <<tunOp, tunReq, tunResp, tunOut, nonTunVars>>

\* a caller turns tunResp into an error
ErrorFromHTTPResponseCall ==
    /\ tunOp = "ErrorFromHTTPResponse"
    /\ tunPc = "call"
    /\ tunErr' = ErrorFromHTTPResponse(tunResp)
    /\ tunPc' = "error"
    /\ UNCHANGED <<tunOp, tunReq, tunRec, tunResp, tunReply, tunOut, nonTunVars>>

\* a caller holding the error tunErr asks for the response in it
HTTPResponseFromErrorCall ==
    /\ tunOp \in {"ErrorFromHTTPResponse", "HTTPResponseFromError"}
    /\ tunPc = "error"
    /\ tunOut' = HTTPResponseFromError(tunErr)
    /\ tunPc' = "done"
    /\ UNCHANGED <<tunOp, tunReq, tunRec, tunResp, tunReply, tunErr, nonTunVars>>

\* no tunnel operation is under way
TunnelIdle ==
    /\ tunOp = "none"
    /\ tunPc = "done"
    /\ tunReq = [Method |-> "GET", Url |-> "/foo"]
    /\ tunRec = NoRecorder
    /\ tunResp = ZeroResponse
    /\ tunReply = <<>>
    /\ tunErr = NilError
    /\ tunOut = NoResponse

(***************************************************************************)
(* Client.ServeHTTP (httpgrpc.go:129-161) and what it calls: the unary     *)
(* call client.Handle of grpc v1.26.0 and net/http's ResponseWriter.       *)
(***************************************************************************)
\* utf8.ValidString on the bytes of the model: ASCII, and 255
ValidUTF8(m) == \A i \in DOMAIN m : m[i] < 128

\* the grpc-message trailer as the client decodes it: the server's percent
\* encoding sends U+FFFD for a byte that is no UTF-8
RECURSIVE GrpcMessage(_)
GrpcMessage(m) ==
    IF m = <<>> THEN <<>>
    ELSE (IF Head(m) < 128 THEN <<Head(m)>> ELSE <<239, 191, 189>>) \o GrpcMessage(Tail(m))

\* What client.Handle returns when the server's Handle returned (reply, e).
\* A reply is marshalled and unmarshalled.  An error goes out as grpc-status
\* and grpc-message, an error without status as codes.Unknown with its text;
\* details go out in grpc-status-details-bin when proto.Marshal of the
\* spb.Status succeeds, and it fails on a message that is no UTF-8: the
\* server logs that and sends the status without them.
OverWire(reply, e) ==
    CASE e.kind = "nil" ->
            [resp |-> <<HTTPResponseUnmarshal(HTTPResponseMarshal(reply[1])).val>>,
             err |-> NilError]
      [] e.kind = "status" ->
            [resp |-> <<>>,
             err |-> IF e.Details # <<>> /\ ValidUTF8(e.Message) THEN e
                     ELSE StatusError(e.Code, GrpcMessage(e.Message), <<>>)]
      [] OTHER ->
            [resp |-> <<>>, err |-> StatusError(2, GrpcMessage(e.Message), <<>>)]

\* strconv.Itoa
RECURSIVE Decimal(_)
Decimal(n) == IF n < 10 THEN <<48 + n>> ELSE Decimal(n \div 10) \o <<48 + (n % 10)>>

\* codes.Code.String for the codes of the model: "Unknown" for 2 and
\* "Code(n)" for a code that has no name
CodeString(c) ==
    IF c = 2 THEN <<85, 110, 107, 110, 111, 119, 110>>
    ELSE <<67, 111, 100, 101, 40>> \o Decimal(c) \o <<41>>

\* err.Error(): "rpc error: code = %s desc = %s" for a status error
ErrorText(e) ==
    IF e.kind = "status"
    THEN <<114, 112, 99, 32, 101, 114, 114, 111, 114, 58, 32, 99, 111, 100, 101, 32, 61, 32>>
             \o CodeString(e.Code) \o <<32, 100, 101, 115, 99, 32, 61, 32>> \o e.Message
    ELSE e.Message

\* the ResponseWriter before anything is written to it
NoWriter == [wrote |-> FALSE, Code |-> 0, Header |-> <<>>, Body |-> <<>>, failed |-> FALSE]

\* "Content-Type": "text/plain; charset=utf-8" and
\* "X-Content-Type-Options": "nosniff"
ErrorHeader ==
    (<<67, 111, 110, 116, 101, 110, 116, 45, 84, 121, 112, 101>> :>
        << <<116, 101, 120, 116, 47, 112, 108, 97, 105, 110, 59, 32, 99, 104, 97, 114,
             115, 101, 116, 61, 117, 116, 102, 45, 56>> >>)
    @@ (<<88, 45, 67, 111, 110, 116, 101, 110, 116, 45, 84, 121, 112, 101, 45, 79, 112,
          116, 105, 111, 110, 115>> :> << <<110, 111, 115, 110, 105, 102, 102>> >>)

\* http.Error: the two headers, WriteHeader(code) and Fprintln(w, text); on a
\* writer whose header is out and whose connection failed nothing arrives
httpError(w, text, code) ==
    IF w.wrote THEN w
    ELSE [wrote |-> TRUE, Code |-> code, Header |-> ErrorHeader @@ w.Header,
          Body |-> text \o <<10>>, failed |-> FALSE]

\* "unexpected EOF"
ErrUnexpectedEOF == <<117, 110, 101, 120, 112, 101, 99, 116, 101, 100, 32, 69, 79, 70>>

\* checkWriteHeaderCode of net/http: WriteHeader panics on any other code
ValidWriteHeaderCode(code) == code >= 100 /\ code <= 999

\* ServeHTTP up to the call of client.Handle: read the body, encode the
\* request (its headers and body are not tracked) and send it.  A body that
\* cannot be read ends the request with http.Error.
ServeHTTPCall ==
    /\ cliPc = "start"
    /\ \E readOK \in BOOLEAN :
        IF readOK
        THEN \E r \in Requests :
                /\ tunOp' = "Handle"
                /\ tunPc' = "call"
                /\ tunReq' = r
                /\ cliPc' = "called"
                /\ cliW' = cliW
        ELSE /\ cliW' = httpError(cliW, ErrUnexpectedEOF, 500)
             /\ cliPc' = "done"
             /\ UNCHANGED <<tunOp, tunPc, tunReq>>
    /\ UNCHANGED <<tunRec, tunResp, tunReply, tunErr, tunOut, cliResp, cliErr, nonClientVars>>

\* ServeHTTP from the return of client.Handle: unpack a response from the
\* error or answer with http.Error, else copy headers, WriteHeader and Write.
\* WriteHeader panics on a code outside 100..999, after the headers were
\* copied and before anything is sent; Write fails when the connection to
\* the caller is down, and the http.Error that follows reaches nobody.
ServeHTTPReturn ==
    /\ cliPc = "called"
    /\ tunOp \in {"Handle", "Remote"}
    /\ tunPc = "done"
    /\ \E got \in {OverWire(tunReply, tunErr)} :
       \E out \in {IF got.err # NilError THEN HTTPResponseFromError(got.err)
                   ELSE [resp |-> got.resp, ok |-> TRUE]} :
       /\ cliResp' = got.resp
       /\ cliErr' = got.err
       /\ IF ~out.ok
          THEN /\ cliW' = httpError(cliW, ErrorText(got.err), 500)
               /\ cliPc' = "done"
          ELSE \E header \in {toHeader(out.resp[1].Headers, cliW.Header)} :
               IF ~ValidWriteHeaderCode(out.resp[1].Code)
               THEN /\ cliW' = [cliW EXCEPT !.Header = header]
                    /\ cliPc' = "panic"
               ELSE /\ \E up \in BOOLEAN :
                        cliW' = [wrote |-> TRUE, Code |-> out.resp[1].Code,
                                 Header |-> header,
                                 Body |-> IF up THEN out.resp[1].Body ELSE <<>>,
                                 failed |-> ~up]
                    /\ cliPc' = "done"
    /\ UNCHANGED <<tunVars, nonClientVars>>

\* the two conversions one after the other, as they meet between the
\* recorder of Handle and the writer of ServeHTTP: fromHeader of an
\* http.Header, then toHeader into the empty header of a writer
CopyHeader ==
    /\ tunOp = "Header"
    /\ tunPc = "call"
    /\ \E hs \in fromHeader(tunRec.Header) :
           cliW' = [cliW EXCEPT !.Header = toHeader(hs, cliW.Header)]
    /\ tunPc' = "done"
    /\ UNCHANGED <<tunOp, tunReq, tunRec, tunResp, tunReply, tunErr, tunOut,
                   cliPc, cliResp, cliErr, nonClientVars>>

(***************************************************************************)
(* ParseURL and NewClient (httpgrpc.go:70-127), with url.Parse,            *)
(* net.SplitHostPort and strings.SplitN of Go 1.13 on strings that are     *)
(* sequences of characters.                                                *)
(***************************************************************************)
UpperCase == <<"A", "B", "C", "D", "E", "F", "G", "H", "I", "J", "K", "L", "M",
               "N", "O", "P", "Q", "R", "S", "T", "U", "V", "W", "X", "Y", "Z">>
LowerCase == <<"a", "b", "c", "d", "e", "f", "g", "h", "i", "j", "k", "l", "m",
               "n", "o", "p", "q", "r", "s", "t", "u", "v", "w", "x", "y", "z">>
Letters == {UpperCase[i] : i \in DOMAIN UpperCase} \cup {LowerCase[i] : i \in DOMAIN LowerCase}
Digits == {"0", "1", "2", "3", "4", "5", "6", "7", "8", "9"}

\* strings.ToLower
ToLower(str) ==
    [i \in DOMAIN str |->
        IF \E j \in DOMAIN UpperCase : UpperCase[j] = str[i]
        THEN LowerCase[CHOOSE j \in DOMAIN UpperCase : UpperCase[j] = str[i]]
        ELSE str[i]]

\* strings.Index and strings.LastIndex of one character, counted from 1: 0
\* when it does not occur
Index(str, c) ==
    IF \E i \in DOMAIN str : str[i] = c
    THEN CHOOSE i \in DOMAIN str : str[i] = c /\ \A j \in 1..(i - 1) : str[j] # c
    ELSE 0
LastIndex(str, c) ==
    IF \E i \in DOMAIN str : str[i] = c
    THEN CHOOSE i \in DOMAIN str : str[i] = c /\ \A j \in (i + 1)..Len(str) : str[j] # c
    ELSE 0

\* strings.HasPrefix
HasPrefix(str, pre) == Len(str) >= Len(pre) /\ SubSeq(str, 1, Len(pre)) = pre

\* str[i:] with i counted from 1
From(str, i) == SubSeq(str, i, Len(str))

\* getscheme of net/url: the letters, digits, "+", "-" and "." before the
\* first ":" are the scheme, unless the first is no letter; a ":" in front is
\* "missing protocol scheme"
RECURSIVE getschemeFrom(_, _)
getschemeFrom(raw, i) ==
    IF i > Len(raw) THEN [ok |-> TRUE, scheme |-> <<>>, rest |-> raw]
    ELSE IF raw[i] \in Letters THEN getschemeFrom(raw, i + 1)
    ELSE IF raw[i] \in Digits \cup {"+", "-", "."}
         THEN IF i = 1 THEN [ok |-> TRUE, scheme |-> <<>>, rest |-> raw]
              ELSE getschemeFrom(raw, i + 1)
    ELSE IF raw[i] = ":"
         THEN IF i = 1 THEN [ok |-> FALSE, scheme |-> <<>>, rest |-> <<>>]
              ELSE [ok |-> TRUE, scheme |-> SubSeq(raw, 1, i - 1), rest |-> From(raw, i + 1)]
    ELSE [ok |-> TRUE, scheme |-> <<>>, rest |-> raw]
getscheme(raw) == getschemeFrom(raw, 1)

\* validOptionalPort of net/url: "" or ":" and digits
validOptionalPort(port) ==
    port = <<>> \/ (port[1] = ":" /\ \A i \in 2..Len(port) : port[i] \in Digits)

\* a URL that does not parse
BadURL == [ok |-> FALSE, Scheme |-> <<>>, Host |-> <<>>, Opaque |-> <<>>, Path |-> <<>>]

\* url.Parse on addresses without "#", "?", "@", "[" and "%": a rootless rest
\* after a scheme is opaque; without a scheme its first segment cannot hold
\* a colon; after "//" comes the authority, whose port must be digits
urlParse(raw) ==
    LET g == getscheme(raw) IN
    IF ~g.ok THEN BadURL
    ELSE IF ~HasPrefix(g.rest, <<"/">>) /\ g.scheme # <<>>
    THEN [ok |-> TRUE, Scheme |-> ToLower(g.scheme), Host |-> <<>>, Opaque |-> g.rest,
          Path |-> <<>>]
    ELSE IF /\ ~HasPrefix(g.rest, <<"/">>)
            /\ Index(g.rest, ":") > 0
            /\ (Index(g.rest, "/") = 0 \/ Index(g.rest, ":") < Index(g.rest, "/"))
    THEN BadURL
    ELSE IF /\ HasPrefix(g.rest, <<"/", "/">>)
            /\ (g.scheme # <<>> \/ ~HasPrefix(g.rest, <<"/", "/", "/">>))
    THEN LET after == From(g.rest, 3)
             slash == Index(after, "/")
             authority == IF slash = 0 THEN after ELSE SubSeq(after, 1, slash - 1)
             colon == LastIndex(authority, ":")
         IN
         IF colon > 0 /\ ~validOptionalPort(From(authority, colon)) THEN BadURL
         ELSE [ok |-> TRUE, Scheme |-> ToLower(g.scheme), Host |-> authority,
               Opaque |-> <<>>,
               Path |-> IF slash = 0 THEN <<>> ELSE From(after, slash)]
    ELSE [ok |-> TRUE, Scheme |-> ToLower(g.scheme), Host |-> <<>>, Opaque |-> <<>>,
          Path |-> g.rest]

\* net.SplitHostPort on addresses without "[": the host before the last
\* colon, which must be its only one, and the port after it
SplitHostPort(hostport) ==
    LET i == LastIndex(hostport, ":") IN
    IF i = 0 THEN [ok |-> FALSE, host |-> <<>>, port |-> <<>>]
    ELSE IF Index(SubSeq(hostport, 1, i - 1), ":") > 0
    THEN [ok |-> FALSE, host |-> <<>>, port |-> <<>>]
    ELSE [ok |-> TRUE, host |-> SubSeq(hostport, 1, i - 1), port |-> From(hostport, i + 1)]

\* strings.SplitN(host, ".", 2)
SplitN2(host) ==
    LET i == Index(host, ".") IN
    IF i = 0 THEN <<host>> ELSE <<SubSeq(host, 1, i - 1), From(host, i + 1)>>

\* what ParseURL returns: ok for a nil error, the address to dial and the
\* namespace of the kuberesolver in the dial options, <<>> for no options
ParseFailed == [ok |-> FALSE, address |-> <<>>, resolver |-> <<>>]
SchemeDirect == <<"d", "i", "r", "e", "c", "t">>
SchemeKubernetes == <<"k", "u", "b", "e", "r", "n", "e", "t", "e", "s">>
DefaultNamespace == <<"d", "e", "f", "a", "u", "l", "t">>

\* case "direct": of the switch on parsed.Scheme
IsDirect(scheme) == scheme = SchemeDirect

\* case "kubernetes", "":
IsKubernetes(scheme) == scheme \in {SchemeKubernetes, <<>>}

ParseURL(unparsed) ==
    LET parsed == urlParse(unparsed) IN
    IF ~parsed.ok THEN ParseFailed
    ELSE IF IsDirect(parsed.Scheme)
    THEN [ok |-> TRUE, address |-> parsed.Host, resolver |-> <<>>]
    ELSE IF IsKubernetes(parsed.Scheme)
    THEN LET hp == SplitHostPort(parsed.Host)
             parts == SplitN2(hp.host)
         IN
         IF ~hp.ok THEN ParseFailed
         ELSE [ok |-> TRUE,
               address |-> SchemeKubernetes \o <<":", "/", "/">> \o parts[1]
                               \o <<":">> \o hp.port,
               resolver |-> IF Len(parts) = 2 THEN parts[2] ELSE DefaultNamespace]
    ELSE ParseFailed

\* the addresses NewClient is given, by their parts: what stands before the
\* host, the service, the namespace and the port
Prefixes ==
    { <<>>, <<"/", "/">>,
      SchemeDirect \o <<":", "/", "/">>,
      SchemeKubernetes \o <<":", "/", "/">>,
      <<"D", "i", "r", "e", "c", "t", ":", "/", "/">>,
      <<"d", "n", "s", ":", "/", "/">> }
Services == {<<"s">>, <<"1">>}
Namespaces == {<<>>, <<"n">>, <<"n", ".", "c">>}
Ports == {<<>>, <<"8", "0">>, <<"x">>}
Addresses == [prefix : Prefixes, service : Services, namespace : Namespaces, port : Ports]

\* host and host:port of an address, and the address as the string it is
HostOf(a) == a.service \o (IF a.namespace = <<>> THEN <<>> ELSE <<".">> \o a.namespace)
HostPortOf(a) == HostOf(a) \o (IF a.port = <<>> THEN <<>> ELSE <<":">> \o a.port)
AddressString(a) == a.prefix \o HostPortOf(a)

\* nothing dialed, no client
NoClient == [client |-> FALSE, dialed |-> FALSE, address |-> <<>>, resolver |-> <<>>]

\* NewClient: an error of ParseURL is returned before grpc.Dial; grpc.Dial
\* without WithBlock starts connecting in the background and returns the
\* connection
NewClient ==
    /\ dialPc = "call"
    /\ \E r \in {ParseURL(AddressString(dialIn))} :
           dialOut' = IF ~r.ok THEN NoClient
                      ELSE [client |-> TRUE, dialed |-> TRUE, address |-> r.address,
                            resolver |-> r.resolver]
    /\ dialPc' = "done"
    /\ UNCHANGED <<dialIn, nonDialVars>>

\* no client is under construction
DialIdle ==
    /\ dialPc = "idle"
    /\ dialIn = [prefix |-> <<>>, service |-> <<>>, namespace |-> <<>>, port |-> <<>>]
    /\ dialOut = NoClient

(***************************************************************************)
(* statsHandler and putBodyBuffer (part_002:12-79).  A []byte is the       *)
(* backing array it points into, its length and its capacity; the array 0  *)
(* is none: nil.                                                           *)
(***************************************************************************)
MaxBuffers == 2
MaxPool == 3

maxInPoolBufferCapacity == 1048576

\* the HTTPResponse messages and the backing arrays: message i starts with
\* a body that fills array i
ResponseIds == 1..MaxBuffers
NilBody == [buf |-> 0, len |-> 0, cap |-> 0]
Capacities == {3200, maxInPoolBufferCapacity, maxInPoolBufferCapacity + 1}

\* stats.RPCStats: the types of notification, those with a Payload, and
\* what the Payload is: one of the HTTPResponse messages, an HTTPRequest,
\* or nothing
Kinds == {"Begin", "InPayload", "OutHeader", "OutPayload", "End"}
PayloadKinds == {"InPayload", "OutPayload"}
NoPayload == [type |-> "none", id |-> 0]
Payloads ==
    [type : {"HTTPResponse"}, id : ResponseIds]
        \cup {[type |-> "HTTPRequest", id |-> 0], [type |-> "nil", id |-> 0]}
Notifications ==
    [kind : PayloadKinds, payload : Payloads]
        \cup [kind : Kinds \ PayloadKinds, payload : {NoPayload}]

\* the context the handlers are given, and the one a wrapped handler
\* derives from it
Contexts == {[base |-> "ctx", tagged |-> FALSE]}
NextContext(ctx) == [ctx EXCEPT !.tagged = TRUE]
NoContext == [base |-> "none", tagged |-> FALSE]

\* st.(*stats.OutPayload) or st.(*stats.InPayload)
IsPayload(kind) == kind \in PayloadKinds

\* st.(*stats.OutPayload)
IsOutPayload(kind) == kind = "OutPayload"

\* outStats.Payload.(*httpgrpc.HTTPResponse)
IsHTTPResponse(payload) == payload.type = "HTTPResponse"

\* cap(resp.Body) < maxInPoolBufferCapacity
BelowCeiling(c) == c < maxInPoolBufferCapacity

\* not cap(resp.Body) > maxInPoolBufferCapacity
FitsPool(c) == ~(c > maxInPoolBufferCapacity)

\* resp.Body left as it is
KeptBody(body) == body

\* resp.Body = nil
ClearedBody(body) == NilBody

\* the context returned whatever sh.next is
SameContext(next, ctx) == ctx

\* TagRPC and TagConn: ctx without sh.next, else what sh.next returns
TagResult(next, ctx) == IF next THEN NextContext(ctx) ELSE ctx

\* the call of sh.next, if there is one
Forwarded(call) == IF shNext THEN <<call>> ELSE <<>>

\* HandleRPC: forward, then for an OutPayload with an HTTPResponse whose
\* body fits the pool: b := resp.Body[:0], resp.Body = nil, putFn(b), where
\* putFn is putBodyBuffer: respBufferPool.Put(bytes.NewBuffer(b))
HandleRPC ==
    /\ Len(pool) < MaxPool
    /\ \E ctx \in Contexts, st \in Notifications :
        \E body \in {IF IsHTTPResponse(st.payload) THEN resps[st.payload.id].Body
                      ELSE NilBody} :
        \E call \in {[method |-> "HandleRPC", ctx |-> ctx, kind |-> st.kind,
                        payload |-> st.payload, body |-> body]} :
            /\ shLast' = call
            /\ shFwd' = Forwarded(call)
            /\ IF IsOutPayload(st.kind) /\ IsHTTPResponse(st.payload) /\ FitsPool(body.cap)
               THEN /\ resps' = [resps EXCEPT ![st.payload.id].Body = ClearedBody(body)]
                    /\ shPut' = <<[body EXCEPT !.len = 0]>>
                    /\ pool' = Append(pool, [body EXCEPT !.len = 0])
               ELSE /\ shPut' = <<>>
                    /\ UNCHANGED <<resps, pool>>
    /\ shRet' = NoContext
    /\ UNCHANGED <<shNext, nonStatVars>>

\* the record of a call that carries no payload
Call(method, ctx, kind) ==
    [method |-> method, ctx |-> ctx, kind |-> kind, payload |-> NoPayload, body |-> NilBody]

TagRPC ==
    /\ \E ctx \in Contexts :
        /\ shLast' = Call("TagRPC", ctx, "RPCTagInfo")
        /\ shFwd' = Forwarded(Call("TagRPC", ctx, "RPCTagInfo"))
        /\ shRet' = TagResult(shNext, ctx)
    /\ shPut' = <<>>
    /\ UNCHANGED <<shNext, resps, pool, nonStatVars>>

TagConn ==
    /\ \E ctx \in Contexts :
        /\ shLast' = Call("TagConn", ctx, "ConnTagInfo")
        /\ shFwd' = Forwarded(Call("TagConn", ctx, "ConnTagInfo"))
        /\ shRet' = TagResult(shNext, ctx)
    /\ shPut' = <<>>
    /\ UNCHANGED <<shNext, resps, pool, nonStatVars>>

HandleConn ==
    /\ \E ctx \in Contexts, kind \in {"ConnBegin", "ConnEnd"} :
        /\ shLast' = Call("HandleConn", ctx, kind)
        /\ shFwd' = Forwarded(Call("HandleConn", ctx, kind))
    /\ shRet' = NoContext
    /\ shPut' = <<>>
    /\ UNCHANGED <<shNext, resps, pool, nonStatVars>>

\* Get of the buffer pool, for a message that has no body: any buffer of
\* the pool leaves it and the message's body is written into it, filling it
GetBodyBuffer ==
    /\ \E r \in ResponseIds, i \in DOMAIN pool :
        /\ resps[r].Body = NilBody
        /\ resps' = [resps EXCEPT ![r].Body = [pool[i] EXCEPT !.len = pool[i].cap]]
        /\ pool' = SubSeq(pool, 1, i - 1) \o SubSeq(pool, i + 1, Len(pool))
    /\ shLast' = Call("Get", NoContext, "none")
    /\ shFwd' = <<>>
    /\ shPut' = <<>>
    /\ shRet' = NoContext
    /\ UNCHANGED <<shNext, nonStatVars>>

\* no stats handler is at work
StatsIdle ==
    /\ shNext = FALSE
    /\ shLast = Call("none", NoContext, "none")
    /\ shFwd = <<>>
    /\ shPut = <<>>
    /\ shRet = NoContext
    /\ resps = [r \in ResponseIds |-> [Body |-> NilBody]]
    /\ pool = <<>>

\* no request is at the client
ClientIdle ==
    /\ cliPc = "idle"
    /\ cliResp = <<>>
    /\ cliErr = NilError
    /\ cliW = NoWriter

(***************************************************************************)
(* Connections and the protocol multiplexer (server.go:490-497, 402-412;   *)
(* github.com/soheilhy/cmux v0.1.5).                                       *)
(***************************************************************************)
\* the client connections followed
ConnIds == {"c1", "c2"}

\* what a client sends first: the method of an HTTP/1.x request line, the
\* HTTP/2 client preface ("PRI * HTTP/2.0 ..."), a TLS ClientHello, or nothing
\* before it closes its side
ClientPreface == "PRI"
ClientHello == "ClientHello"
EOF == "EOF"
RequestMethods == {"GET", "POST", "PATCH"}
Firsts == RequestMethods \cup {ClientPreface, ClientHello, EOF}

\* cmux: defaultHTTPMethods, the prefixes HTTP1Fast() accepts
defaultHTTPMethods == {"OPTIONS", "GET", "HEAD", "POST", "PUT", "DELETE", "TRACE", "CONNECT"}

\* cmux.HTTP1Fast(): a prefix match of the first bytes against the methods
HTTP1Fast(first) == first \in defaultHTTPMethods

\* cmux.HTTP2(): the first bytes are the client preface
HTTP2(first) == first = ClientPreface

\* the listeners of the mux in the order of their Match calls, each with its matcher
muxListeners == <<"http", "grpcOnHTTP">>

Matches(l, first) == IF l = "http" THEN HTTP1Fast(first) ELSE HTTP2(first)

\* cMux.serve: the listener of the first matcher that accepts the first bytes
MatchedListener(first) ==
    LET hits == {i \in 1..Len(muxListeners) : Matches(muxListeners[i], first)} IN
    IF hits = {} THEN None
    ELSE muxListeners[CHOOSE i \in hits : \A j \in hits : i <= j]

\* a connection no client has opened yet
NoConn == [stage |-> "new", via |-> None, first |-> None, matched |-> None, to |-> {}]

\* a connection handed to every listener of the mux
DeliverAll(c, l) ==
    [c EXCEPT !.stage = "delivered",
              !.to = @ \cup {muxListeners[i] : i \in 1..Len(muxListeners)}]

\* the connection once the Accept of routine l has returned it
Deliver(c, l) == [c EXCEPT !.stage = "delivered", !.to = @ \cup {l}]

\* the routine whose Accept reads socket p
Acceptor(p) == IF p = "http" /\ srv.grpchttpmux THEN "mux" ELSE p

\* Accept on a bound socket returns a client's connection.  A sub-server on
\* its own socket has the connection from then on; cMux.Serve starts
\* cMux.serve on it, which has read nothing so far.
AcceptConn(c) ==
    /\ conns[c].stage = "new"
    /\ \E p \in Protocols, first \in Firsts :
          /\ sock[p] = "open"
          /\ pc[Acceptor(p)] = "serving"
          /\ conns' = [conns EXCEPT ![c] =
                 IF Acceptor(p) = "mux"
                 THEN [@ EXCEPT !.stage = "sniffing", !.via = p, !.first = first]
                 ELSE Deliver([@ EXCEPT !.via = p, !.first = first], p)]
    /\ UNCHANGED nonMuxVars

\* cMux.serve: the matchers are tried in order on the sniffed bytes; with none
\* matching the connection is closed (ErrNotMatched goes to the error handler,
\* which by default carries on)
Classify(c) ==
    /\ conns[c].stage = "sniffing"
    /\ \E l \in {MatchedListener(conns[c].first)} :
          conns' = [conns EXCEPT ![c] =
              IF l = None
              THEN [@ EXCEPT !.stage = "closed"]
              ELSE [@ EXCEPT !.stage = "matched", !.matched = l]]
    /\ UNCHANGED nonMuxVars

\* select { case sl.l.connc <- muc: ... }: the matched listener's Accept, called
\* by its sub-server's Serve, receives the connection
DeliverMatched(c) ==
    /\ conns[c].stage = "matched"
    /\ pc[conns[c].matched] = "serving"
    /\ conns' = [conns EXCEPT ![c] = Deliver(@, conns[c].matched)]
    /\ UNCHANGED nonMuxVars

\* select { ... case <-donec: _ = c.Close() }: cMux.Serve has returned
CloseMatched(c) ==
    /\ conns[c].stage = "matched"
    /\ eng["mux"] = "exited"
    /\ conns' = [conns EXCEPT ![c].stage = "closed"]
    /\ UNCHANGED nonMuxVars

\* no connection has arrived
MuxIdle == conns = [c \in ConnIds |-> NoConn]

(***************************************************************************)
(* The HTTP handler chain (server.go:538-564; middleware.Merge).           *)
(***************************************************************************)
MaxMiddleware == 2

\* the middleware a caller can supply in cfg.HTTPMiddleware
CallerMiddleware == {"A", "B", "C"}

MiddlewareConfigs ==
    [ DoNotAddDefaultHTTPMiddleware : BOOLEAN,
      HTTPMiddleware : UNION {[1..n -> CallerMiddleware] : n \in 0..MaxMiddleware} ]

NoMiddlewareConfig == [DoNotAddDefaultHTTPMiddleware |-> FALSE, HTTPMiddleware |-> <<>>]

\* defaultHTTPMiddleware := []middleware.Interface{Tracer, defaultLogMiddleware, Instrument}
defaultHTTPMiddleware == <<"Tracer", "Log", "Instrument">>

\* the list handed to Merge
httpMiddleware(c) ==
    IF c.DoNotAddDefaultHTTPMiddleware
    THEN c.HTTPMiddleware
    ELSE defaultHTTPMiddleware \o c.HTTPMiddleware

Router == <<"router">>

\* m.Wrap(next): a handler that runs m and, from inside it, next
Wrap(m, next) == <<m>> \o next

\* a Merge whose last middleware wraps outermost
RECURSIVE MergeLastOutermost(_, _)
MergeLastOutermost(ms, next) ==
    IF ms = <<>> THEN next
    ELSE MergeLastOutermost(Tail(ms), Wrap(Head(ms), next))

\* Merge(ms...).Wrap(next): the first middleware wraps outermost
RECURSIVE Merge(_, _)
Merge(ms, next) ==
    IF ms = <<>> THEN next
    ELSE Merge(SubSeq(ms, 1, Len(ms) - 1), Wrap(ms[Len(ms)], next))

\* setupHTTPServer: Handler: middleware.Merge(httpMiddleware...).Wrap(router)
SetupMiddleware ==
    /\ mwPc = "idle"
    /\ \E c \in MiddlewareConfigs :
          /\ mwCfg' = c
          /\ mwHandler' = Merge(httpMiddleware(c), Router)
    /\ mwPc' = "built"
    /\ UNCHANGED <<mwAt, mwTrace, nonChainVars>>

\* http.Server hands a request to its Handler
ServeRequest ==
    /\ mwPc = "built"
    /\ mwPc' = "serving"
    /\ mwAt' = mwHandler
    /\ mwTrace' = <<>>
    /\ UNCHANGED <<mwCfg, mwHandler, nonChainVars>>

\* the request enters the next component.  The default middleware and the
\* router's own handlers aside, a middleware may answer without calling next.
EnterNext ==
    /\ mwPc = "serving"
    /\ mwTrace' = Append(mwTrace, Head(mwAt))
    /\ \E answers \in BOOLEAN :
          /\ answers => Head(mwAt) \in CallerMiddleware
          /\ IF answers \/ Tail(mwAt) = <<>>
             THEN mwPc' = "done" /\ mwAt' = <<>>
             ELSE mwPc' = "serving" /\ mwAt' = Tail(mwAt)
    /\ UNCHANGED <<mwCfg, mwHandler, nonChainVars>>

\* no handler chain has been built
ChainIdle ==
    /\ mwPc = "idle"
    /\ mwCfg = NoMiddlewareConfig
    /\ mwHandler = <<>>
    /\ mwAt = <<>>
    /\ mwTrace = <<>>

(***************************************************************************)
(* The RPC instrumentation interceptor (middleware/grpc_instrumentation.go *)
(* 14-32) and IsCanceled (grpc/cancel.go).                                 *)
(***************************************************************************)
\* codes.Canceled
Canceled == 1

\* IsCanceled: errors.Is(err, context.Canceled), or a status of code Canceled
IsCanceled(e) ==
    \/ e.kind = "canceled"
    \/ e.kind = "status" /\ FromError(e).Code = Canceled

\* httpgrpc.Errorf(code, "%d", code): the error of a response with that code and text
Errorf(code) ==
    ErrorFromHTTPResponse([Code |-> code, Headers |-> <<>>, Body |-> Decimal(code)])

\* the errors an RPC handler returns
HandlerErrors ==
    {NilError, Errorf(402), Errorf(500)}
        \cup {PlainError(m) : m \in Bodies}
        \cup {WrapsCanceled(prefix) : prefix \in {<<>>, SomethingFailed}}
        \cup {StatusError(c, m, <<>>) : c \in {Canceled, 2, 402, 503}, m \in Bodies \cup {ContextCanceled}}
        \cup {ErrorFromHTTPResponse([Code |-> c, Headers |-> <<>>, Body |-> b]) :
                  c \in {200, 404, 503}, b \in Bodies}
        \cup {StatusError(c, <<>>, <<MarshalAny([Code |-> 200, Headers |-> <<>>, Body |-> b])>>) :
                  c \in {Canceled, 503}, b \in Bodies}

\* the methods of the test's FakeServer (server_test.go:47-57)
FullMethods ==
    {"/server.FakeServer/Succeed", "/server.FakeServer/FailWithError",
     "/server.FakeServer/FailWithHTTPError", "/server.FakeServer/Sleep"}

\* a label that is "success" whatever the handler returned
respStatusSuccess(e) == "success"

\* respStatus: "success"; with an error, the decimal status code when
\* status.FromError finds a status, else "error"
respStatus(e) ==
    IF e = NilError THEN "success"
    ELSE IF FromError(e).ok THEN ToString(FromError(e).Code)
    ELSE "error"

\* the interceptor around a handler that returns any error: one observation,
\* and the handler's error handed on
ServerInstrumentInterceptor ==
    /\ obsPc = "idle"
    /\ obsRoute' \in FullMethods
    /\ \E e \in HandlerErrors :
          /\ obsErr' = e
          /\ \E l \in {respStatus(e)} : obsLabel' = l
          /\ obsRet' = e
    /\ obsPc' = "done"
    /\ UNCHANGED nonObsVars

\* the next call arrives
NextCall ==
    /\ obsPc = "done"
    /\ obsPc' = "idle"
    /\ UNCHANGED <<obsRoute, obsErr, obsLabel, obsRet, nonObsVars>>

\* no call has been observed
ObsIdle ==
    /\ obsPc = "idle"
    /\ obsRoute = None
    /\ obsErr = NilError
    /\ obsLabel = None
    /\ obsRet = NilError

(***************************************************************************)
(* A unary and a server-streaming call under client cancellation           *)
(* (server_test.go:47-68, 198-219).                                        *)
(***************************************************************************)
\* the ticks of the handler's sleep, the sends of the streaming handler
MaxSleep == 3

\* the client's error for a cancelled context: a status of code Canceled
ClientCanceled == StatusError(Canceled, ContextCanceled, <<>>)

\* the error of stream.Send on a stream whose context is Done
SendFailed == StatusError(Canceled, ContextCanceled, <<>>)

\* a streaming call that fails whenever its context is cancelled
StreamCallResultAsUnary(sent, cancelled) == IF cancelled THEN ClientCanceled ELSE NilError

\* client.StreamSleep(ctx, in): NewStream, SendMsg, CloseSend.  A cancelled
\* context fails NewStream or SendMsg; with the request sent, CloseSend
\* returns nil whatever the context, and the call returns the stream.
StreamCallResult(sent, cancelled) ==
    IF ~sent /\ cancelled THEN ClientCanceled ELSE NilError

\* cancelableSleep: return ctx.Err()
cancelableSleep(done) == IF done THEN WrapsCanceled(<<>>) ELSE NilError

\* client.Sleep(ctx, in) or client.StreamSleep(ctx, in) is called
StartCall ==
    /\ rpcCall = "idle"
    /\ rpcKind' \in {"unary", "stream"}
    /\ rpcCall' = "started"
    /\ UNCHANGED <<rpcCallErr, rpcCancelled, rpcSrv, rpcSrvDone, rpcSrvErr, rpcSleep,
                   rpcCancelledRunning, nonRpcVars>>

\* callThenCancel: cancel(), at any moment after the call began
Cancel ==
    /\ rpcCall # "idle"
    /\ ~rpcCancelled
    /\ rpcCancelled' = TRUE
    /\ rpcCancelledRunning' = (rpcSrv = "running")
    /\ UNCHANGED <<rpcKind, rpcCall, rpcCallErr, rpcSrv, rpcSrvDone, rpcSrvErr, rpcSleep, nonRpcVars>>

\* the client writes the request; with the context cancelled already the
\* call fails here
SendRequest ==
    /\ rpcCall = "started"
    /\ IF rpcCancelled
       THEN /\ rpcCall' = "returned"
            /\ rpcCallErr' = IF rpcKind = "unary" THEN ClientCanceled
                             ELSE StreamCallResult(FALSE, rpcCancelled)
            /\ UNCHANGED rpcSrv
       ELSE /\ rpcCall' = "sent"
            /\ rpcSrv' = "pending"
            /\ UNCHANGED rpcCallErr
    /\ UNCHANGED <<rpcKind, rpcCancelled, rpcSrvDone, rpcSrvErr, rpcSleep, rpcCancelledRunning,
                   nonRpcVars>>

\* the server has read the request and calls FakeServer.Sleep or StreamSleep
HandlerStart ==
    /\ rpcSrv = "pending"
    /\ rpcSrv' = "running"
    /\ rpcSleep' = MaxSleep
    /\ UNCHANGED <<rpcKind, rpcCall, rpcCallErr, rpcCancelled, rpcSrvDone, rpcSrvErr,
                   rpcCancelledRunning, nonRpcVars>>

\* the client's transport resets the stream and the server cancels the
\* handler's context
PropagateCancel ==
    /\ rpcCancelled
    /\ rpcSrv # "none"
    /\ ~rpcSrvDone
    /\ rpcSrvDone' = TRUE
    /\ UNCHANGED <<rpcKind, rpcCall, rpcCallErr, rpcCancelled, rpcSrv, rpcSrvErr, rpcSleep,
                   rpcCancelledRunning, nonRpcVars>>

\* time passes in Sleep; StreamSleep sleeps and sends one message, and
\* returns the error of a failed Send
HandlerStep ==
    /\ rpcSrv = "running"
    /\ rpcSleep > 0
    /\ IF rpcKind = "stream" /\ rpcSrvDone
       THEN /\ rpcSrv' = "returned"
            /\ rpcSrvErr' = SendFailed
            /\ UNCHANGED rpcSleep
       ELSE /\ rpcSleep' = rpcSleep - 1
            /\ UNCHANGED <<rpcSrv, rpcSrvErr>>
    /\ UNCHANGED <<rpcKind, rpcCall, rpcCallErr, rpcCancelled, rpcSrvDone, rpcCancelledRunning,
                   nonRpcVars>>

\* Sleep returns ctx.Err() once the sleep is over or the context is Done;
\* StreamSleep returns nil after its last send
HandlerReturn ==
    /\ rpcSrv = "running"
    /\ rpcSleep = 0 \/ (rpcKind = "unary" /\ rpcSrvDone)
    /\ rpcSrv' = "returned"
    /\ rpcSrvErr' = IF rpcKind = "unary" THEN cancelableSleep(rpcSrvDone) ELSE NilError
    /\ UNCHANGED <<rpcKind, rpcCall, rpcCallErr, rpcCancelled, rpcSrvDone, rpcSleep,
                   rpcCancelledRunning, nonRpcVars>>

\* client.Sleep returns: with the context cancelled the call ends at once
\* with a Canceled status, else with the handler's response.  A response on
\* its way when cancel() is called does not overtake the cancellation.
ReturnUnary ==
    /\ rpcKind = "unary"
    /\ rpcCall = "sent"
    /\ rpcCancelled \/ rpcSrv = "returned"
    /\ rpcCall' = "returned"
    /\ rpcCallErr' = IF rpcCancelled THEN ClientCanceled
                     ELSE IF rpcSrvErr = NilError THEN NilError
                     ELSE OverWire(<<>>, rpcSrvErr).err
    /\ UNCHANGED <<rpcKind, rpcCancelled, rpcSrv, rpcSrvDone, rpcSrvErr, rpcSleep,
                   rpcCancelledRunning, nonRpcVars>>

\* client.StreamSleep returns the stream
ReturnStream ==
    /\ rpcKind = "stream"
    /\ rpcCall = "sent"
    /\ rpcCall' = "returned"
    /\ rpcCallErr' = StreamCallResult(TRUE, rpcCancelled)
    /\ UNCHANGED <<rpcKind, rpcCancelled, rpcSrv, rpcSrvDone, rpcSrvErr, rpcSleep,
                   rpcCancelledRunning, nonRpcVars>>

\* no call is under way
RpcIdle ==
    /\ rpcKind = None
    /\ rpcCall = "idle"
    /\ rpcCallErr = NilError
    /\ rpcCancelled = FALSE
    /\ rpcSrv = "none"
    /\ rpcSrvDone = FALSE
    /\ rpcSrvErr = NilError
    /\ rpcSleep = 0
    /\ rpcCancelledRunning = FALSE

(***************************************************************************)
(* TLS material (server.go:54-60, 666-708; server_test.go:597-684).        *)
(***************************************************************************)
\* The TLS material a caller supplies for one protocol.  TLSConfig has the
\* file paths; the inline fields are the ones TestTLSServerWithInlineCerts
\* sets, which the TLSConfig under src/ does not have and nothing reads.
TLSMaterials ==
    [ TLSCertPath : {"", "certs/server.crt"},
      TLSKeyPath : {"", "certs/server.key"},
      ClientCAs : {"", "certs/root.crt"},
      TLSCert : {"", "PEM CERTIFICATE"},
      TLSKey : {"", "PEM PRIVATE KEY"} ]

NoMaterial ==
    [TLSCertPath |-> "", TLSKeyPath |-> "", ClientCAs |-> "", TLSCert |-> "", TLSKey |-> ""]

\* len(TLSCertPath) > 0 && len(TLSKeyPath) > 0
PathsSet(t) == t.TLSCertPath # "" /\ t.TLSKeyPath # ""

\* the two certificate texts are given
InlineSet(t) == t.TLSCert # "" /\ t.TLSKey # ""

\* what the resolution reads of the material: both paths set
UsesTLS(t) == PathsSet(t)

NoTLSResult == [tls |-> FALSE, err |-> Nil]

\* getHTTPTLSConfig(s.cfg, ...) or getGRPCTLSConfig(s.cfg, ...) on a config
\* with the material t for that protocol
ResolveTLS ==
    /\ tlsPc = "idle"
    /\ \E p \in Protocols, t \in TLSMaterials, loadOK \in BOOLEAN :
          /\ tlsProto' = p
          /\ tlsIn' = t
          /\ tlsLoadOK' = loadOK
          /\ \E c \in {[HTTPTLS |-> UsesTLS(t), GRPCTLS |-> UsesTLS(t)]} :
                 tlsOut' = IF p = "http" THEN getHTTPTLSConfig(c, loadOK)
                           ELSE getGRPCTLSConfig(c, loadOK)
    /\ tlsPc' = "done"
    /\ UNCHANGED nonTlsVars

\* the next Server is constructed
NextConfig ==
    /\ tlsPc = "done"
    /\ tlsPc' = "idle"
    /\ UNCHANGED <<tlsProto, tlsIn, tlsLoadOK, tlsOut, nonTlsVars>>

\* no TLS material is being resolved
TlsIdle ==
    /\ tlsPc = "idle"
    /\ tlsProto = None
    /\ tlsIn = NoMaterial
    /\ tlsLoadOK = TRUE
    /\ tlsOut = NoTLSResult

(***************************************************************************)
(* The response writers that keep the body of a bad response for the log:  *)
(* badResponseLoggingWriter and the older badResponseLogger.  A body is    *)
(* modelled by its length, the captured buffer by the chunks and           *)
(* truncation markers written to it in order.                              *)
(***************************************************************************)
maxResponseBodyInLogs == 4096

\* the calls made on one writer
MaxCalls == 4

LoggingWriters == {"badResponseLoggingWriter", "badResponseLogger"}

\* the statuses a handler writes
WrittenStatuses == {200, 404, 500, 503}

\* the lengths of the data a handler writes
WrittenLengths == {0, 1, 2048, 4096, 5000}

StatusOK == 200

BodyChunk(n) == [kind |-> "body", n |-> n]
TruncationMarker == [kind |-> "marker", n |-> 0]

\* bytes.Buffer.Write, ResponseRecorder.Write: n more bytes of body
BufferWrite(buf, n) == IF n = 0 THEN buf ELSE Append(buf, BodyChunk(n))

\* the fields a writer has after its constructor
NewWriterFields(k) ==
    [statusCode |-> IF k = "badResponseLogger" THEN StatusOK ELSE 0,
     logBody |-> FALSE,
     bodyBytesLeft |-> maxResponseBodyInLogs]

\* captureResponseBody(data) with len(data) = n, on a writer with left bytes
\* left: the buffer, the counter and logBody afterwards
captureResponseBody(buf, left, n) ==
    IF n > left
    THEN [buffer |-> Append(BufferWrite(buf, left), TruncationMarker),
          bodyBytesLeft |-> 0,
          logBody |-> FALSE]
    ELSE [buffer |-> BufferWrite(buf, n),
          bodyBytesLeft |-> left - n,
          logBody |-> TRUE]

\* the body of badResponseLogger.Write past its early return: as
\* captureResponseBody, but logBody stays set
recordResponseBody(buf, left, n) ==
    [captureResponseBody(buf, left, n) EXCEPT !.logBody = TRUE]

\* the writer underneath sends the header at the first WriteHeader or Write
SendHeader(sent, code) == IF sent = 0 THEN code ELSE sent

\* newBadResponseLoggingWriter(rw) or newBadResponseLogger()
NewWriter(k) ==
    /\ logKind = "none"
    /\ logKind' = k
    /\ statusCode' = NewWriterFields(k).statusCode
    /\ logBody' = NewWriterFields(k).logBody
    /\ bodyBytesLeft' = NewWriterFields(k).bodyBytesLeft
    /\ buffer' = <<>>
    /\ rwStatus' = 0
    /\ rwWritten' = 0
    /\ logCalls' = 0
    /\ UNCHANGED nonLogVars

\* b.WriteHeader(code)
WriteHeader(code) ==
    /\ logKind # "none"
    /\ logCalls < MaxCalls
    /\ logCalls' = logCalls + 1
    /\ statusCode' = code
    /\ rwStatus' = SendHeader(rwStatus, code)
    /\ logBody' = IF logKind = "badResponseLoggingWriter"
                  THEN (IF code >= 500 THEN TRUE ELSE logBody)
                  ELSE (IF 100 <= code /\ code < 500 THEN logBody ELSE TRUE)
    /\ UNCHANGED <<logKind, bodyBytesLeft, buffer, rwWritten, nonLogVars>>

\* b.Write(data) with len(data) = n
Write(n) ==
    /\ logKind # "none"
    /\ logCalls < MaxCalls
    /\ logCalls' = logCalls + 1
    /\ IF logKind = "badResponseLoggingWriter"
       THEN /\ rwStatus' = SendHeader(rwStatus, StatusOK)
            /\ rwWritten' = rwWritten + n
            /\ IF logBody
               THEN /\ buffer' = captureResponseBody(buffer, bodyBytesLeft, n).buffer
                    /\ bodyBytesLeft' =
                           captureResponseBody(buffer, bodyBytesLeft, n).bodyBytesLeft
                    /\ logBody' = captureResponseBody(buffer, bodyBytesLeft, n).logBody
               ELSE UNCHANGED <<buffer, bodyBytesLeft, logBody>>
       ELSE IF ~logBody
            THEN UNCHANGED <<buffer, bodyBytesLeft, logBody, rwStatus, rwWritten>>
            ELSE /\ rwStatus' = SendHeader(rwStatus, StatusOK)
                 /\ rwWritten' = rwWritten
                 /\ buffer' = recordResponseBody(buffer, bodyBytesLeft, n).buffer
                 /\ bodyBytesLeft' =
                        recordResponseBody(buffer, bodyBytesLeft, n).bodyBytesLeft
                 /\ logBody' = recordResponseBody(buffer, bodyBytesLeft, n).logBody
    /\ UNCHANGED <<logKind, statusCode, nonLogVars>>

\* the request is over; the next one gets a writer of its own
DropWriter ==
    /\ logKind # "none"
    /\ logKind' = "none"
    /\ statusCode' = 0
    /\ logBody' = FALSE
    /\ bodyBytesLeft' = maxResponseBodyInLogs
    /\ buffer' = <<>>
    /\ rwStatus' = 0
    /\ rwWritten' = 0
    /\ logCalls' = 0
    /\ UNCHANGED nonLogVars

\* no response writer is in use
LogIdle ==
    /\ logKind = "none"
    /\ statusCode = 0
    /\ logBody = FALSE
    /\ bodyBytesLeft = maxResponseBodyInLogs
    /\ buffer = <<>>
    /\ rwStatus = 0
    /\ rwWritten = 0
    /\ logCalls = 0

(***************************************************************************)
(* The org and user IDs injected into an outgoing HTTP request             *)
(* (user/http.go).  The request is its two headers; the context is the IDs *)
(* it carries.                                                             *)
(***************************************************************************)
\* the injections called on one request
MaxApply == 3

OrgIDLists == {<<"a">>, <<"b">>, <<"a", "b">>, <<"b", "a">>}
UserIDValues == {"u1", "u2"}

\* the context carries no user ID
Absent == "absent"

\* the context carries no org IDs
NoOrgIDs == <<>>

InjectContexts ==
    [orgIDs : OrgIDLists \cup {NoOrgIDs}, userID : UserIDValues \cup {"", Absent}]

NoInjectContext == [orgIDs |-> NoOrgIDs, userID |-> Absent]

ErrNoOrgID == "no org id"
ErrNoUserID == "no user id"
ErrDifferentOrgIDPresent == "different org ID already present"
ErrDifferentUserIDPresent == "different user ID already present"
NoErr == "nil"

\* ExtractOrgIDs(ctx)
ExtractOrgIDs(ctx) ==
    IF ctx.orgIDs = NoOrgIDs THEN [ids |-> <<>>, err |-> ErrNoOrgID]
    ELSE [ids |-> ctx.orgIDs, err |-> NoErr]

\* ExtractUserID(ctx)
ExtractUserID(ctx) ==
    IF ctx.userID = Absent THEN [id |-> "", err |-> ErrNoUserID]
    ELSE [id |-> ctx.userID, err |-> NoErr]

\* r.Header.Add(OrgIDHeaderName, orgID) for each orgID of ids, in order
AddAll(existing, ids) == existing \o ids

\* InjectOrgIDIntoHTTPRequest(ctx, r) on a request whose org-ID header holds
\* existing: the header afterwards and the error returned
InjectOrgIDIntoHTTPRequest(ctx, existing) ==
    IF ExtractOrgIDs(ctx).err # NoErr
    THEN [header |-> existing, err |-> ExtractOrgIDs(ctx).err]
    ELSE IF Len(existing) > 0 /\ existing # ExtractOrgIDs(ctx).ids
    THEN [header |-> existing, err |-> ErrDifferentOrgIDPresent]
    ELSE [header |-> AddAll(existing, ExtractOrgIDs(ctx).ids), err |-> NoErr]

\* InjectUserIDIntoHTTPRequest(ctx, r) on a request whose user-ID header
\* holds existing
InjectUserIDIntoHTTPRequest(ctx, existing) ==
    IF ExtractUserID(ctx).err # NoErr
    THEN [header |-> existing, err |-> ExtractUserID(ctx).err]
    ELSE IF existing # "" /\ existing # ExtractUserID(ctx).id
    THEN [header |-> existing, err |-> ErrDifferentUserIDPresent]
    ELSE [header |-> ExtractUserID(ctx).id, err |-> NoErr]

\* a request is made, with the headers its caller set, under some context
NewOutgoingRequest ==
    /\ injPc = "idle"
    /\ injPc' = "ready"
    /\ injCtx' \in InjectContexts
    /\ reqOrgIDs' \in OrgIDLists \cup {<<>>}
    /\ reqUserID' \in UserIDValues \cup {""}
    /\ injErr' = NoErr
    /\ injApplied' = 0
    /\ injCalls' = 0
    /\ UNCHANGED nonInjVars

\* InjectOrgIDIntoHTTPRequest(ctx, r)
InjectOrgID ==
    /\ injPc = "ready"
    /\ injCalls < MaxApply
    /\ injCalls' = injCalls + 1
    /\ reqOrgIDs' = InjectOrgIDIntoHTTPRequest(injCtx, reqOrgIDs).header
    /\ injErr' = InjectOrgIDIntoHTTPRequest(injCtx, reqOrgIDs).err
    /\ injApplied' = IF InjectOrgIDIntoHTTPRequest(injCtx, reqOrgIDs).err = NoErr
                     THEN injApplied + 1 ELSE injApplied
    /\ UNCHANGED <<injPc, injCtx, reqUserID, nonInjVars>>

\* InjectUserIDIntoHTTPRequest(ctx, r)
InjectUserID ==
    /\ injPc = "ready"
    /\ injCalls < MaxApply
    /\ injCalls' = injCalls + 1
    /\ reqUserID' = InjectUserIDIntoHTTPRequest(injCtx, reqUserID).header
    /\ injErr' = InjectUserIDIntoHTTPRequest(injCtx, reqUserID).err
    /\ UNCHANGED <<injPc, injCtx, reqOrgIDs, injApplied, nonInjVars>>

\* the request is sent; the next one starts afresh
SendInjected ==
    /\ injPc = "ready"
    /\ injPc' = "idle"
    /\ injCtx' = NoInjectContext
    /\ reqOrgIDs' = <<>>
    /\ reqUserID' = ""
    /\ injErr' = NoErr
    /\ injApplied' = 0
    /\ injCalls' = 0
    /\ UNCHANGED nonInjVars

\* no request is being prepared
InjIdle ==
    /\ injPc = "idle"
    /\ injCtx = NoInjectContext
    /\ reqOrgIDs = <<>>
    /\ reqUserID = ""
    /\ injErr = NoErr
    /\ injApplied = 0
    /\ injCalls = 0

\* the smaller components are at rest
ExtIdle == ChainIdle /\ ObsIdle /\ RpcIdle /\ TlsIdle /\ LogIdle /\ InjIdle

(***************************************************************************)
(* The lifecycle specification.                                            *)
(***************************************************************************)
\* the state New leaves behind, for config c under environment e
Constructed(c, e) ==
    LET r == NewResult(c, e) IN
    /\ cfg = c
    /\ env = e
    /\ newPc = IF r.err = Nil THEN "ok" ELSE "failed"
    /\ newErr = r.err
    /\ srv = r.srv
    /\ sock = r.sock

NotRunning ==
    /\ eng = [http |-> "new", grpc |-> "new", mux |-> "new", grpcOnHTTP |-> "new"]
    /\ quit = FALSE
    /\ sig = FALSE
    /\ runPc = "idle"
    /\ runResult = Nil
    /\ errChan = <<>>
    /\ pc = [r \in Routines |-> "none"]
    /\ err = [r \in Routines |-> Nil]
    /\ rep = [r \in Routines |-> None]
    /\ firstValue = None
    /\ shutPc = "idle"
    /\ timer = 0
    /\ inflight = [p \in Protocols |-> 0]
    /\ stopInTime = FALSE
    /\ failedFirst = FALSE
    /\ MuxIdle
    /\ ExtIdle

\* The environment of a lifecycle run: every bind and certificate load of New
\* has succeeded.
AllOK == [bindHTTP |-> TRUE, loadHTTP |-> TRUE, bindGRPC |-> TRUE, loadGRPC |-> TRUE]

\* TLS only changes the handshake the engines perform on accepted connections:
\* the lifecycle is explored for the configs without it
PlainConfigs == {c \in Configs : ~c.HTTPTLS /\ ~c.GRPCTLS}

\* the Servers New returns for the plain configs
ServerInit ==
    /\ \E c \in PlainConfigs : NewResult(c, AllOK).err = Nil /\ Constructed(c, AllOK)
    /\ NotRunning
    /\ TunnelIdle
    /\ ClientIdle
    /\ DialIdle
    /\ StatsIdle

(***************************************************************************)
(* Spec: Run, Stop, signals, listener failures and Shutdown, with no       *)
(* request traffic.  With nothing in flight both drains of Shutdown end at *)
(* once and its deadline never matters: the configs carry a zero timeout.  *)
(***************************************************************************)
Init == ServerInit /\ cfg.ServerGracefulShutdownTimeout = 0

Next ==
    \/ Run
    \/ \E r \in Routines : Serve(r)
    \/ \E r \in Routines : ServeReturns(r)
    \/ \E r \in Routines : Report(r)
    \/ RunReturns
    \/ Stop
    \/ Signal
    \/ \E p \in Protocols : CloseListener(p)
    \/ Shutdown
    \/ ShutdownHTTP
    \/ ShutdownHTTPReturns
    \/ ShutdownGRPC
    \/ ShutdownGRPCReturns

Spec == Init /\ [][Next]_vars

\* a step of a goroutine Run started, of Run itself or of Shutdown
Scheduled ==
    \/ \E r \in Routines : Serve(r) \/ ServeReturns(r) \/ Report(r)
    \/ RunReturns
    \/ ShutdownStep

\* The Go scheduler runs every runnable goroutine; the environment (Stop,
\* signals, listener failures) is under no obligation.  Each goroutine takes
\* finitely many steps, so weak fairness of their union is weak fairness of
\* each.
Fairness == WF_vars(Scheduled)

FairSpec == Spec /\ Fairness

(***************************************************************************)
(* DrainSpec: Run and Shutdown under request traffic and a running         *)
(* deadline, with no Stop, signal or listener failure.                     *)
(***************************************************************************)
DrainInit == ServerInit

DrainNext ==
    \/ Run
    \/ \E r \in Routines : Serve(r)
    \/ \E r \in Routines : ServeReturns(r)
    \/ \E r \in Routines : Report(r)
    \/ RunReturns
    \/ \E p \in Protocols : StartRequest(p)
    \/ \E p \in Protocols : FinishRequest(p)
    \/ Shutdown
    \/ Tick
    \/ ShutdownHTTP
    \/ ShutdownHTTPReturns
    \/ ShutdownGRPC
    \/ ShutdownGRPCReturns

DrainSpec == DrainInit /\ [][DrainNext]_vars

(***************************************************************************)
(* NewSpec: construction on its own, for every config and environment.     *)
(***************************************************************************)
NewInit ==
    /\ cfg \in Configs
    /\ env \in Envs
    /\ newPc = "init"
    /\ newErr = Nil
    /\ srv = NoServer
    /\ sock = [p \in Protocols |-> "unbound"]
    /\ NotRunning
    /\ TunnelIdle
    /\ ClientIdle
    /\ DialIdle
    /\ StatsIdle

NewNext == New

NewSpec == NewInit /\ [][NewNext]_vars

(***************************************************************************)
(* TunnelSpec: each tunnel operation applied to each of its inputs.        *)
(***************************************************************************)
\* the responses handed to ErrorFromHTTPResponse
ResponseCodes == {0, 500, 503, 599, 600}
Responses == [Code : ResponseCodes, Headers : SeqUpTo(Headers, MaxHeaders), Body : Bodies]

\* the details a status error can carry: encoded responses and bytes that are
\* none, under the type URL of HTTPResponse, of another message, and one
\* without "/"
SampleResponses ==
    { ZeroResponse,
      [Code |-> 200, Headers |-> <<>>, Body |-> <<52>>],
      [Code |-> 503, Headers |-> <<[Key |-> <<75>>, Values |-> <<<<118>>>>]>>, Body |-> <<>>] }
Garbage == {<<255>>, <<8>>, <<26, 5, 52>>, <<9, 52>>, <<36>>}
TypeUrls ==
    { HTTPResponseUrl,
      <<"type.googleapis.com", "google.rpc.RetryInfo">>,
      <<HTTPResponseName>> }
Details ==
    [TypeUrl : TypeUrls, Value : {HTTPResponseMarshal(r) : r \in SampleResponses} \cup Garbage]

\* the errors handed to HTTPResponseFromError
Errors ==
    {NilError}
        \cup {PlainError(m) : m \in Bodies}
        \cup {WrapsCanceled(prefix) : prefix \in {<<>>, SomethingFailed}}
        \cup {StatusError(c, m, ds) :
                 c \in {2, 503}, m \in Bodies, ds \in SeqUpTo(Details, MaxDetails)}

\* the server of the lifecycle stays as New returned it
ServerIdle ==
    /\ Constructed([HTTPListenPort |-> HTTPPort, GRPCListenPort |-> GRPCPort,
                    RouteHTTPToGRPC |-> FALSE, HTTPTLS |-> FALSE, GRPCTLS |-> FALSE,
                    SignalHandler |-> "nil", ServerGracefulShutdownTimeout |-> 0],
                   AllOK)
    /\ NotRunning

TunnelInit ==
    /\ ServerIdle
    /\ ClientIdle
    /\ DialIdle
    /\ StatsIdle
    /\ tunRec = NoRecorder
    /\ tunReply = <<>>
    /\ tunOut = NoResponse
    /\ \/ /\ tunOp = "Handle"
          /\ tunPc = "call"
          /\ tunReq \in Requests
          /\ tunResp = ZeroResponse
          /\ tunErr = NilError
       \/ /\ tunOp = "ErrorFromHTTPResponse"
          /\ tunPc = "call"
          /\ tunReq = [Method |-> "GET", Url |-> "/foo"]
          /\ tunResp \in Responses
          /\ tunErr = NilError
       \/ /\ tunOp = "HTTPResponseFromError"
          /\ tunPc = "error"
          /\ tunReq = [Method |-> "GET", Url |-> "/foo"]
          /\ tunResp = ZeroResponse
          /\ tunErr \in Errors

TunnelNext ==
    \/ Handle
    \/ ErrorFromHTTPResponseCall
    \/ HTTPResponseFromErrorCall

TunnelSpec == TunnelInit /\ [][TunnelNext]_vars

(***************************************************************************)
(* ClientSpec: a request through Client.ServeHTTP, to a server whose       *)
(* Handle replays it and to a remote that fails with any error.            *)
(***************************************************************************)
\* the errors a remote Handle can fail with
RemoteErrors ==
    {PlainError(m) : m \in Bodies}
        \cup {WrapsCanceled(<<>>)}
        \cup {StatusError(c, <<52>>, ds) : c \in {2, 503}, ds \in SeqUpTo(Details, 1)}
        \cup {StatusError(503, <<52>>, <<MarshalAny(r), MarshalAny(r)>>) : r \in SampleResponses}

ClientInit ==
    /\ ServerIdle
    /\ StatsIdle
    /\ tunReq = [Method |-> "GET", Url |-> "/foo"]
    /\ tunResp = ZeroResponse
    /\ tunReply = <<>>
    /\ tunOut = NoResponse
    /\ cliResp = <<>>
    /\ cliErr = NilError
    /\ cliW = NoWriter
    /\ \/ /\ cliPc = "start"
          /\ tunOp = "none"
          /\ tunPc = "done"
          /\ tunRec = NoRecorder
          /\ tunErr = NilError
          /\ DialIdle
       \/ /\ cliPc = "called"
          /\ tunOp = "Remote"
          /\ tunPc = "done"
          /\ tunRec = NoRecorder
          /\ tunErr \in RemoteErrors
          /\ DialIdle
       \/ /\ cliPc = "idle"
          /\ tunOp = "Header"
          /\ tunPc = "call"
          /\ \E header \in HeaderMaps : tunRec = [NoRecorder EXCEPT !.Header = header]
          /\ tunErr = NilError
          /\ DialIdle
       \/ /\ cliPc = "idle"
          /\ tunOp = "none"
          /\ tunPc = "done"
          /\ tunRec = NoRecorder
          /\ tunErr = NilError
          /\ dialPc = "call"
          /\ dialIn \in Addresses
          /\ dialOut = NoClient

ClientNext ==
    \/ ServeHTTPCall
    \/ Handle
    \/ ServeHTTPReturn
    \/ CopyHeader
    \/ NewClient

ClientSpec == ClientInit /\ [][ClientNext]_vars

(***************************************************************************)
(* StatsSpec: the stats handler under any sequence of notifications, with  *)
(* and without a wrapped handler, and the pool's Get.                      *)
(***************************************************************************)
StatsInit ==
    /\ ServerIdle
    /\ TunnelIdle
    /\ ClientIdle
    /\ DialIdle
    /\ shNext \in BOOLEAN
    /\ shLast = Call("none", NoContext, "none")
    /\ shFwd = <<>>
    /\ shPut = <<>>
    /\ shRet = NoContext
    /\ \E caps \in [ResponseIds -> Capacities] :
           resps = [r \in ResponseIds |->
                       [Body |-> [buf |-> r, len |-> caps[r], cap |-> caps[r]]]]
    /\ pool = <<>>

StatsNext ==
    \/ HandleRPC
    \/ TagRPC
    \/ TagConn
    \/ HandleConn
    \/ GetBodyBuffer

StatsSpec == StatsInit /\ [][StatsNext]_vars

(***************************************************************************)
(* MuxSpec: client connections arriving at a running server, with and      *)
(* without the multiplexer, while listeners may fail under it.             *)
(***************************************************************************)
MuxInit ==
    /\ ServerInit
    /\ cfg.SignalHandler = "nil"
    /\ cfg.ServerGracefulShutdownTimeout = 0

MuxNext ==
    \/ Run
    \/ \E r \in Routines : Serve(r)
    \/ \E r \in Routines : ServeReturns(r)
    \/ \E p \in Protocols : CloseListener(p)
    \/ \E c \in ConnIds : AcceptConn(c)
    \/ \E c \in ConnIds : Classify(c)
    \/ \E c \in ConnIds : DeliverMatched(c)
    \/ \E c \in ConnIds : CloseMatched(c)

MuxSpec == MuxInit /\ [][MuxNext]_vars

(***************************************************************************)
(* BootSpec: New on every plain config, then Run and the first             *)
(* connections.                                                            *)
(***************************************************************************)
BootInit ==
    /\ NewInit
    /\ cfg \in PlainConfigs
    /\ cfg.SignalHandler = "nil"
    /\ cfg.ServerGracefulShutdownTimeout = 0
    /\ env = AllOK

BootNext ==
    \/ New
    \/ Run
    \/ \E r \in Routines : Serve(r)
    \/ \E c \in ConnIds : AcceptConn(c)
    \/ \E c \in ConnIds : Classify(c)
    \/ \E c \in ConnIds : DeliverMatched(c)

BootSpec == BootInit /\ [][BootNext]_vars

(***************************************************************************)
(* ChainSpec: the handler chain built from each config, and a request      *)
(* passing through it.                                                     *)
(***************************************************************************)
ChainInit ==
    /\ ServerIdle
    /\ TunnelIdle
    /\ ClientIdle
    /\ DialIdle
    /\ StatsIdle

ChainNext ==
    \/ SetupMiddleware
    \/ ServeRequest
    \/ EnterNext

ChainSpec == ChainInit /\ [][ChainNext]_vars

(***************************************************************************)
(* InstrumentSpec: RPC calls, one after another, whose handlers return any *)
(* error.                                                                  *)
(***************************************************************************)
InstrumentInit == ChainInit

InstrumentNext ==
    \/ ServerInstrumentInterceptor
    \/ NextCall

InstrumentSpec == InstrumentInit /\ [][InstrumentNext]_vars

(***************************************************************************)
(* CancelSpec: one unary or streaming call, cancelled by its client at any *)
(* moment.  The transport delivers a cancellation it was given.            *)
(***************************************************************************)
CancelInit == ChainInit

CancelNext ==
    \/ StartCall
    \/ Cancel
    \/ SendRequest
    \/ HandlerStart
    \/ PropagateCancel
    \/ HandlerStep
    \/ HandlerReturn
    \/ ReturnUnary
    \/ ReturnStream

CancelSpec == CancelInit /\ [][CancelNext]_vars /\ WF_vars(PropagateCancel)

(***************************************************************************)
(* TLSSpec: the TLS material of one protocol after another resolved.       *)
(***************************************************************************)
TLSInit == ChainInit

TLSNext ==
    \/ ResolveTLS
    \/ NextConfig

TLSSpec == TLSInit /\ [][TLSNext]_vars

(***************************************************************************)
(* LogSpec: one response after another written through a logging writer.   *)
(***************************************************************************)
LogInit == ChainInit

LogNext ==
    \/ \E k \in LoggingWriters : NewWriter(k)
    \/ \E code \in WrittenStatuses : WriteHeader(code)
    \/ \E n \in WrittenLengths : Write(n)
    \/ DropWriter

LogSpec == LogInit /\ [][LogNext]_vars

(***************************************************************************)
(* InjectSpec: one outgoing request after another given the context's IDs. *)
(***************************************************************************)
InjectInit == ChainInit

InjectNext ==
    \/ NewOutgoingRequest
    \/ InjectOrgID
    \/ InjectUserID
    \/ SendInjected

InjectSpec == InjectInit /\ [][InjectNext]_vars

(***************************************************************************)
(* Claims about the lifecycle.                                             *)
(***************************************************************************)
\* C1: Run reports exactly one outcome: the value it returns is the first
\* value any routine put on errChan, whatever the later routines offer; the
\* channel never holds more than its one slot; and a routine that is about
\* to report can always take its step (the send never blocks).
C1_SingleOutcome ==
    /\ runPc = "returned" => (firstValue # None /\ runResult = firstValue)
    /\ Len(errChan) <= ErrChanCap
    /\ \A r \in Routines : pc[r] = "reporting" => ENABLED Report(r)

\* Run has returned the watcher's nil although a serving routine later
\* offered an error, which was discarded.
C1_Witness ==
    /\ runPc = "returned"
    /\ runResult = Nil
    /\ \E r \in ServingRoutines : pc[r] = "done" /\ rep[r] # Nil

EnvOK(c, e) ==
    /\ HTTPEnabled(c) => (e.bindHTTP /\ (c.HTTPTLS => e.loadHTTP))
    /\ GRPCEnabled(c) => (e.bindGRPC /\ (c.GRPCTLS => e.loadGRPC))

AbnormalReported == \E r \in ServingRoutines : pc[r] = "done" /\ rep[r] # Nil

\* C3 as stated: once Stop() was called while Run() was blocked and no
\* serving routine had terminated, what Run() returns is nil.
C3_Original == (stopInTime /\ runPc = "returned") => runResult = Nil

\* C3: once Stop() was called while Run() was blocked and no
\* serving routine had terminated, Run() eventually returns, and it returns
\* nil unless a serving routine has reported an abnormal termination.
C3_StopUnblocksRun ==
    stopInTime ~> (runPc = "returned" /\ (runResult = Nil \/ AbnormalReported))

\* Stop() unblocked a Run() that uses the injected handler, with no signal.
C3_Witness ==
    /\ stopInTime
    /\ srv.handler = "dummyHandler"
    /\ ~sig
    /\ runPc = "returned"
    /\ runResult = Nil

\* the graceful-stop sentinel of the engine a routine runs
Sentinel(r) == IF r = "http" THEN ErrServerClosed ELSE ErrServerStopped

\* C4: a serving routine whose engine returned its graceful-stop sentinel
\* reports nil to Run.
C4_SentinelsNormalised ==
    \A r \in ServingRoutines :
        (pc[r] = "done" /\ err[r] = Sentinel(r)) => rep[r] = Nil

\* both sub-servers ended with their sentinel and reported nil
C4_Witness ==
    /\ pc["http"] = "done" /\ err["http"] = ErrServerClosed /\ rep["http"] = Nil
    /\ pc["grpc"] = "done" /\ err["grpc"] = ErrServerStopped /\ rep["grpc"] = Nil

\* C5 as stated: if a serve loop terminated abnormally before any stop or
\* signal, what Run() returns is a non-nil error.
C5_Original == (failedFirst /\ runPc = "returned") => runResult # Nil

\* C5: if Run() returns while no stop, signal or shutdown has
\* occurred (so a serve loop has terminated abnormally), it returns a
\* non-nil error, whichever sub-server failed.
C5_AbnormalTermination == (runPc = "returned" /\ Quiet) => runResult # Nil

\* the RPC listener was closed underneath its server and Run returned its error
C5_Witness ==
    /\ runPc = "returned"
    /\ Quiet
    /\ failedFirst
    /\ pc["grpc"] = "done"
    /\ runResult = ErrAccept

ShutdownRunning == shutPc \in {"http", "httpWait", "grpc", "grpcWait"}

\* C6 as stated: once the deadline has expired a running Shutdown() is never
\* waiting: it can always take its next step.
C6_Original == (ShutdownRunning /\ timer = 0) => ENABLED ShutdownStep

\* C6: once the deadline has expired the HTTP drain returns whatever
\* is in flight; a running Shutdown() is then waiting only in the RPC
\* sub-server's graceful stop, for a call still in flight.
C6_HTTPDrainBounded ==
    /\ (shutPc = "httpWait" /\ timer = 0) => ENABLED ShutdownHTTPReturns
    /\ (ShutdownRunning /\ timer = 0 /\ ~ENABLED ShutdownStep)
          => (shutPc = "grpcWait" /\ inflight["grpc"] > 0)

\* the HTTP drain has returned with an HTTP request still in flight
C6_Witness ==
    /\ shutPc \in {"grpc", "grpcWait", "returned"}
    /\ timer = 0
    /\ inflight["http"] > 0

\* C7: only the HTTP drain is bounded by the deadline; Shutdown() has not
\* returned while a call on the RPC sub-server is in flight, and while one
\* is, the graceful stop cannot return, expired deadline or not.
C7_RPCDrainUnbounded ==
    /\ (shutPc = "returned" /\ srv.GRPC) => inflight["grpc"] = 0
    /\ (shutPc = "grpcWait" /\ inflight["grpc"] > 0) => ~ENABLED ShutdownGRPCReturns
    /\ (shutPc = "httpWait" /\ timer = 0) => ENABLED ShutdownHTTPReturns

\* Shutdown() is held in the graceful stop by a call, past the deadline
C7_Witness ==
    /\ shutPc = "grpcWait"
    /\ timer = 0
    /\ inflight["grpc"] > 0

(***************************************************************************)
(* Claims about the tunnel.                                                *)
(***************************************************************************)
HandleReturned == tunOp = "Handle" /\ tunPc = "done"

\* the encoded response resp carries what the recorder holds: its code, its
\* body, and one header per key of its header map with that key's values
Encodes(resp, rec) ==
    /\ resp.Code = rec.Code
    /\ resp.Body = rec.Body
    /\ Len(resp.Headers) = Cardinality(DOMAIN rec.Header)
    /\ toHeader(resp.Headers, <<>>) = rec.Header

\* Handle returned a nil reply and a status error whose one detail decodes to
\* the encoding of the recorder
ReturnedStatusError ==
    /\ tunReply = <<>>
    /\ tunErr.kind = "status"
    /\ Len(tunErr.Details) = 1
    /\ LET u == UnmarshalAny(tunErr.Details[1]) IN u.ok /\ Encodes(u.val, tunRec)

\* Handle returned the encoding of the recorder and a nil error
ReturnedReply ==
    /\ tunErr = NilError
    /\ Len(tunReply) = 1
    /\ Encodes(tunReply[1], tunRec)

\* C8 as stated: for every request Handle returns the status error with the
\* encoded response exactly when the handler's status is 500 or more, and the
\* encoded response with a nil error otherwise.
C8_Original ==
    HandleReturned =>
        IF tunRec.Code >= 500 THEN ReturnedStatusError ELSE ReturnedReply

\* C8: for every request an http.Request can be built from, Handle runs the
\* handler and returns the status error carrying the encoded response (code,
\* headers, body) exactly when the handler's status is in 500..599, and the
\* encoded response with a nil error for every other status; for a request
\* none can be built from, it returns that error and no reply without running
\* the handler.
C8_ServerErrorPromotion ==
    HandleReturned =>
        IF NewRequest(tunReq) # NilError
        THEN ~tunRec.ran /\ tunReply = <<>> /\ tunErr = NewRequest(tunReq)
        ELSE /\ tunRec.ran
             /\ IF tunRec.Code \in 500..599 THEN ReturnedStatusError ELSE ReturnedReply

\* Handle has returned a 503 with two headers and a body as a status error,
\* and no reply.
C8_Witness ==
    /\ HandleReturned
    /\ tunRec.Code = 503
    /\ Cardinality(DOMAIN tunRec.Header) = 2
    /\ tunRec.Body # <<>>
    /\ tunErr.kind = "status"
    /\ tunReply = <<>>

RoundTripDone == tunOp = "ErrorFromHTTPResponse" /\ tunPc = "done"

\* C9: for every response r with 500 <= r.Code < 600,
\* HTTPResponseFromError(ErrorFromHTTPResponse(r)) is (r, true): the same
\* code, the same headers in the same order with the same values, the same
\* body.
C9_RoundTrip ==
    (RoundTripDone /\ tunResp.Code \in 500..599) =>
        tunOut = [resp |-> <<tunResp>>, ok |-> TRUE]

\* A 5xx response with two headers, one of them with an empty key and one
\* with an empty value, and a body has gone through both conversions.
C9_Witness ==
    /\ RoundTripDone
    /\ tunResp.Code = 599
    /\ Len(tunResp.Headers) = 2
    /\ \E i \in DOMAIN tunResp.Headers : tunResp.Headers[i].Key = <<>>
    /\ \E i \in DOMAIN tunResp.Headers : tunResp.Headers[i].Values = << <<>> >>
    /\ tunResp.Body # <<>>
    /\ tunOut.ok

FromErrorDone ==
    tunOp \in {"ErrorFromHTTPResponse", "HTTPResponseFromError"} /\ tunPc = "done"

\* e is a value ErrorFromHTTPResponse returns for some response: nil, or a
\* status error whose one detail decodes to a response it is the error of
ProducedByErrorFromHTTPResponse(e) ==
    \/ e = NilError
    \/ /\ e.kind = "status"
       /\ Len(e.Details) = 1
       /\ LET u == UnmarshalAny(e.Details[1]) IN
          u.ok /\ ErrorFromHTTPResponse(u.val) = e

NotATunnelledResponse(e) ==
    \/ e.kind \in {"error", "canceled"}
    \/ (e.kind = "status" /\ Len(e.Details) # 1)
    \/ (e.kind = "status" /\ Len(e.Details) = 1 /\ ~UnmarshalAny(e.Details[1]).ok)

C11_CancellationMapped ==
    (FromErrorDone /\ tunErr.kind = "canceled") =>
        /\ tunOut.ok
        /\ tunOut.resp # <<>>
        /\ tunOut.resp[1].Code = StatusClientClosedRequest
        /\ tunOut.resp[1].Body = tunErr.Message

\* HTTPResponseFromError has returned (nil, false) for
\* fmt.Errorf("something failed: %w", context.Canceled).
C11_Witness ==
    /\ tunOp = "HTTPResponseFromError"
    /\ tunPc = "done"
    /\ tunErr = WrapsCanceled(SomethingFailed)
    /\ tunOut = NoResponse

(***************************************************************************)
(* Claims about the tunnel client.                                         *)
(***************************************************************************)
\* ServeHTTP is over for a request whose client.Handle returned an error
ServeHTTPFailedCall == cliPc \in {"done", "panic"} /\ cliErr # NilError

\* w was sent the response resp: its headers, its status and, unless the
\* connection to the caller went down, its body
WroteVerbatim(w, resp) ==
    /\ w.wrote
    /\ w.Code = resp.Code
    /\ w.Header = toHeader(resp.Headers, <<>>)
    /\ (~w.failed => w.Body = resp.Body)

\* w was sent the status 500 with the text as http.Error writes it
WroteGeneric(w, text) == w = httpError(NoWriter, text, 500)

\* the response ServeHTTP owes its caller for the error e was written
WroteFor(e, w) ==
    \E out \in {HTTPResponseFromError(e)} :
        IF out.ok THEN WroteVerbatim(w, out.resp[1]) ELSE WroteGeneric(w, ErrorText(e))

\* C12 as stated: when client.Handle fails, ServeHTTP writes the response
\* embedded in the error verbatim if HTTPResponseFromError recovers one, and
\* otherwise a 500 whose body is the error text; it writes one of the two
\* for every request.
C12_OneResponseWritten ==
    ServeHTTPFailedCall => (cliPc = "done" /\ WroteFor(cliErr, cliW))

\* ServeHTTP has panicked in WriteHeader(0) with nothing written: the error
\* carried one detail that decodes to a response with code 0.
C12_Witness ==
    /\ cliPc = "panic"
    /\ cliErr.kind = "status"
    /\ HTTPResponseFromError(cliErr).ok
    /\ HTTPResponseFromError(cliErr).resp[1].Code = 0
    /\ ~cliW.wrote

\* ServeHTTP has answered a request the remote handler served, over a
\* connection to its caller that stayed up
ServedEndToEnd ==
    /\ cliPc = "done"
    /\ tunOp = "Handle"
    /\ tunRec.ran
    /\ ~cliW.failed

\* C13 as stated: the caller of the tunnel client observes exactly the
\* status code and body the remote handler produced; a code below 500
\* arrives through the normal reply and a 5xx code through the StatusError.
C13_EndToEnd ==
    ServedEndToEnd =>
        /\ cliW.wrote
        /\ cliW.Code = tunRec.Code
        /\ cliW.Body = tunRec.Body
        /\ IsServerError(tunRec.Code) <=> cliErr.kind = "status"
        /\ ~IsServerError(tunRec.Code) <=> (cliErr = NilError /\ cliResp # <<>>)

\* The handler answered 503 with a body that is no UTF-8 and the caller of
\* the tunnel client was sent a 500 with the text of a status error that
\* carries no detail.
C13_Witness ==
    /\ ServedEndToEnd
    /\ tunRec.Code = 503
    /\ tunRec.Body = <<255>>
    /\ cliErr.kind = "status"
    /\ cliErr.Details = <<>>
    /\ cliW.Code = 500
    /\ cliW.Body # tunRec.Body

(***************************************************************************)
(* Claims about the header conversions.                                    *)
(***************************************************************************)
HeaderCopied == tunOp = "Header" /\ tunPc = "done"

Dialed == dialPc = "done" /\ dialIn.port = <<"8", "0">>

\* the client resolves service and port through the resolver of the
\* namespace of dialIn, "default" when it has none
ThroughClusterResolver ==
    /\ dialOut.client
    /\ dialOut.address = SchemeKubernetes \o <<":", "/", "/">> \o dialIn.service
                              \o <<":">> \o dialIn.port
    /\ dialOut.resolver = IF dialIn.namespace = <<>> THEN DefaultNamespace
                          ELSE dialIn.namespace

\* C15 as stated: direct://host:port passes host:port through with no
\* resolver; kubernetes://service[.namespace]:port and the bare
\* service[.namespace]:port resolve service and port through the cluster
\* resolver of the namespace, "default" when none is given; any other scheme
\* makes NewClient fail before anything is dialed.
C15_AddressSchemes ==
    Dialed =>
        /\ dialIn.prefix = SchemeDirect \o <<":", "/", "/">> =>
               /\ dialOut.client
               /\ dialOut.address = HostPortOf(dialIn)
               /\ dialOut.resolver = <<>>
        /\ dialIn.prefix = SchemeKubernetes \o <<":", "/", "/">> => ThroughClusterResolver
        /\ dialIn.prefix = <<>> => ThroughClusterResolver
        /\ dialIn.prefix = <<"d", "n", "s", ":", "/", "/">> =>
               ~dialOut.client /\ ~dialOut.dialed

\* NewClient has failed, with nothing dialed, for the bare address "s.n:80".
C15_Witness ==
    /\ dialPc = "done"
    /\ AddressString(dialIn) = <<"s", ".", "n", ":", "8", "0">>
    /\ ~dialOut.client
    /\ ~dialOut.dialed

(***************************************************************************)
(* Claims about the buffer pool and the stats handler.                     *)
(***************************************************************************)
\* the stats handler has just handled an OutPayload with an HTTPResponse
HandledResponseOut ==
    /\ shLast.method = "HandleRPC"
    /\ IsOutPayload(shLast.kind)
    /\ IsHTTPResponse(shLast.payload)

\* C16: whatever notifications came, no buffer of a capacity above
\* maxInPoolBufferCapacity is in the pool, so none can leave it through Get,
\* and no backing array is in the pool twice; an OutPayload for a response
\* whose body has a capacity above the ceiling puts nothing, and one whose
\* body has a capacity at or below it, the ceiling included, puts that body
\* once, at length zero and with its capacity.
C16_PoolAdmission ==
    /\ \A i \in DOMAIN pool : pool[i].cap <= maxInPoolBufferCapacity /\ pool[i].len = 0
    /\ \A i, j \in DOMAIN pool : (i # j /\ pool[i].buf > 0) => pool[i].buf # pool[j].buf
    /\ HandledResponseOut =>
           IF shLast.body.cap > maxInPoolBufferCapacity
           THEN shPut = <<>>
           ELSE shPut = <<[buf |-> shLast.body.buf, len |-> 0, cap |-> shLast.body.cap]>>

\* A full body whose capacity is the ceiling itself has been put, at length
\* zero, and is in the pool.
C16_Witness ==
    /\ HandledResponseOut
    /\ shLast.body.cap = maxInPoolBufferCapacity
    /\ shLast.body.len = maxInPoolBufferCapacity
    /\ shPut # <<>>
    /\ \E i \in DOMAIN pool :
           pool[i] = [buf |-> shLast.body.buf, len |-> 0, cap |-> maxInPoolBufferCapacity]

\* C17: a buffer enters the pool, and putFn is called, only in the step
\* that handles the OutPayload notification for an HTTPResponse, and the
\* buffer is the body that response referenced when the notification came;
\* no other notification and no other payload puts anything.
C17_PutOnlyOnOutPayload ==
    [][(Len(pool') > Len(pool) \/ shPut' # <<>>) =>
          /\ shLast'.method = "HandleRPC"
          /\ shLast'.kind = "OutPayload"
          /\ shLast'.payload.type = "HTTPResponse"
          /\ shLast'.body = resps[shLast'.payload.id].Body
          /\ shPut' = <<[shLast'.body EXCEPT !.len = 0]>>
          /\ pool' = Append(pool, [shLast'.body EXCEPT !.len = 0])]_vars

\* An InPayload that carries an HTTPResponse whose body fits the pool has
\* been handled: nothing was put and the response keeps its body.
C17_Witness ==
    /\ shLast.method = "HandleRPC"
    /\ shLast.kind = "InPayload"
    /\ IsHTTPResponse(shLast.payload)
    /\ shLast.body.buf > 0
    /\ FitsPool(shLast.body.cap)
    /\ shPut = <<>>
    /\ resps[shLast.payload.id].Body = shLast.body

\* C18: no backing array is referenced by a buffer of the pool and by the
\* body of a response at once, nor by the bodies of two responses, one of
\* which got it from the pool: the response gave its body up before the put.
C18_SingleOwner ==
    /\ \A i \in DOMAIN pool : \A r \in ResponseIds :
           pool[i].buf > 0 => resps[r].Body.buf # pool[i].buf
    /\ \A r1, r2 \in ResponseIds :
           (r1 # r2 /\ resps[r1].Body.buf > 0) => resps[r1].Body.buf # resps[r2].Body.buf

\* The body of response 1 went to the pool and from there to response 2,
\* and response 1 references nothing.
C18_Witness ==
    /\ resps[1].Body = NilBody
    /\ resps[2].Body.buf = 1
    /\ shLast.method = "Get"

\* the stats handler has just handled one of its four notifications
Notified == shLast.method \in {"HandleRPC", "TagRPC", "TagConn", "HandleConn"}

\* C19: each notification is forwarded to the wrapped handler once, with
\* the context and the notification as they came (the body of an
\* HTTPResponse still in place); TagRPC and TagConn return the context the
\* wrapped handler returns; without a wrapped handler nothing is forwarded
\* and they return the context they were given.
C19_PassThrough ==
    Notified =>
        /\ shFwd = IF shNext THEN <<shLast>> ELSE <<>>
        /\ shLast.method \in {"TagRPC", "TagConn"} =>
               shRet = IF shNext THEN NextContext(shLast.ctx) ELSE shLast.ctx

\* TagRPC has returned the context of the wrapped handler, which is not the
\* one it was given.
C19_Witness ==
    /\ shNext
    /\ shLast.method = "TagRPC"
    /\ shFwd = <<shLast>>
    /\ shRet = NextContext(shLast.ctx)
    /\ shRet # shLast.ctx

(***************************************************************************)
(* Claims about connection routing.                                        *)
(***************************************************************************)
\* the connection's journey is over: a sub-server has it or it was closed
Routed(c) == conns[c].stage \in {"delivered", "closed"}

\* the connection came in through the mux
ThroughMux(c) == conns[c].via = "http" /\ srv.grpchttpmux

\* C20 as stated: every accepted connection whose routing is over is with
\* exactly one sub-server; under the mux that is the HTTP sub-server for an
\* HTTP/1.x request line and the RPC sub-server for HTTP/2.
C20_ExactlyOne ==
    \A c \in ConnIds :
        Routed(c) =>
            /\ Cardinality(conns[c].to) = 1
            /\ ThroughMux(c) /\ conns[c].first \in RequestMethods => conns[c].to = {"http"}
            /\ ThroughMux(c) /\ conns[c].first = ClientPreface => conns[c].to = {"grpcOnHTTP"}

\* C20: no connection is ever with two sub-servers.  A connection on a
\* sub-server's own socket is with that sub-server.  Under the mux a delivered
\* connection is with the HTTP sub-server when it began with one of the eight
\* methods HTTP1Fast knows and with the RPC sub-server when it began with the
\* HTTP/2 preface; a connection that began with anything else (another
\* method such as PATCH, a TLS ClientHello, nothing at all) is closed and no
\* sub-server has it, and so is a matched one still undelivered when the mux
\* stops.
C20_AtMostOne ==
    \A c \in ConnIds :
        /\ Cardinality(conns[c].to) <= 1
        /\ conns[c].stage = "delivered" <=> conns[c].to # {}
        /\ Routed(c) /\ ~ThroughMux(c) => conns[c].to = {conns[c].via}
        /\ Routed(c) /\ ThroughMux(c) =>
              /\ conns[c].to \subseteq {"http", "grpcOnHTTP"}
              /\ conns[c].to = {"http"} =>
                     conns[c].first \in {"OPTIONS", "GET", "HEAD", "POST", "PUT", "DELETE", "TRACE", "CONNECT"}
              /\ conns[c].to = {"grpcOnHTTP"} => conns[c].first = ClientPreface
              /\ conns[c].first \in {"PATCH", ClientHello, EOF} => conns[c].stage = "closed"
              /\ conns[c].stage = "closed" =>
                     \/ conns[c].first \in {"PATCH", ClientHello, EOF}
                     \/ eng["mux"] = "exited"

\* one connection went through the mux to the HTTP sub-server, the other to
\* the RPC sub-server
C20_Witness ==
    /\ srv.grpchttpmux
    /\ \E c, d \in ConnIds :
          /\ conns[c].stage = "delivered" /\ conns[c].via = "http" /\ conns[c].to = {"http"}
          /\ conns[d].stage = "delivered" /\ conns[d].via = "http" /\ conns[d].to = {"grpcOnHTTP"}

\* an HTTP/1.1 PATCH request came in through the running mux and was closed
C20_Dropped ==
    \E c \in ConnIds :
        /\ ThroughMux(c)
        /\ conns[c].first = "PATCH"
        /\ conns[c].stage = "closed"
        /\ eng["mux"] # "exited"

(***************************************************************************)
(* Claims about when the multiplexer is active.                            *)
(***************************************************************************)
\* C21: New fails when RouteHTTPToGRPC is set and a protocol is disabled; the
\* Server it returns has a multiplexer exactly when both protocols are enabled
\* and RouteHTTPToGRPC is set; Run starts the multiplexer's routine and the
\* RPC-on-HTTP routine exactly when the Server has a multiplexer; without one
\* every connection is with the sub-server whose socket it arrived on, and
\* with one that still holds for the RPC socket.
C21_MuxActive ==
    /\ newPc # "init" /\ cfg.RouteHTTPToGRPC /\ (~HTTPEnabled(cfg) \/ ~GRPCEnabled(cfg)) =>
           newPc = "failed" /\ newErr # Nil
    /\ newPc = "ok" =>
           (srv.grpchttpmux <=> HTTPEnabled(cfg) /\ GRPCEnabled(cfg) /\ cfg.RouteHTTPToGRPC)
    /\ newPc # "ok" => ~srv.grpchttpmux
    /\ runPc # "idle" =>
           /\ pc["mux"] # "none" <=> srv.grpchttpmux
           /\ pc["grpcOnHTTP"] # "none" <=> srv.grpchttpmux
           /\ pc["http"] # "none" <=> HTTPEnabled(cfg)
           /\ pc["grpc"] # "none" <=> GRPCEnabled(cfg)
    /\ \A c \in ConnIds :
           /\ conns[c].stage # "new" /\ ~(srv.grpchttpmux /\ conns[c].via = "http") =>
                  conns[c].stage = "delivered" /\ conns[c].to = {conns[c].via}
           /\ conns[c].to \cap {"grpcOnHTTP"} # {} => srv.grpchttpmux /\ conns[c].via = "http"

\* a Server with the multiplexer is running, one connection on the HTTP socket
\* went through it to the RPC-on-HTTP server and one on the RPC socket went
\* to the RPC server
C21_Witness ==
    /\ newPc = "ok"
    /\ cfg.RouteHTTPToGRPC
    /\ pc["mux"] = "serving"
    /\ pc["grpcOnHTTP"] = "serving"
    /\ \E c, d \in ConnIds :
          /\ conns[c].via = "http" /\ conns[c].to = {"grpcOnHTTP"}
          /\ conns[d].via = "grpc" /\ conns[d].to = {"grpc"}

\* a Server without the multiplexer is running and has taken a connection
C21_WitnessOff ==
    /\ newPc = "ok"
    /\ ~cfg.RouteHTTPToGRPC
    /\ runPc = "blocked"
    /\ pc["mux"] = "none"
    /\ \E c \in ConnIds : conns[c].via = "http" /\ conns[c].to = {"http"}

(***************************************************************************)
(* Claims about the HTTP handler chain.                                    *)
(***************************************************************************)
\* the order in which a request of config c meets the components
ExpectedOrder(c) ==
    (IF c.DoNotAddDefaultHTTPMiddleware THEN <<>> ELSE <<"Tracer", "Log", "Instrument">>)
        \o c.HTTPMiddleware \o <<"router">>

IsPrefix(p, q) == Len(p) <= Len(q) /\ SubSeq(q, 1, Len(p)) = p

\* C22: a request enters the components in list order, first-registered
\* outermost: tracing, request logging, metrics, then the caller's middleware
\* in the order given, then the router; with DoNotAddDefaultHTTPMiddleware only
\* the caller's middleware and the router.  A request that reaches the router
\* has entered all of them.
C22_ChainOrder ==
    mwPc \in {"serving", "done"} =>
        /\ IsPrefix(mwTrace, ExpectedOrder(mwCfg))
        /\ mwTrace # <<>> /\ mwTrace[Len(mwTrace)] = "router" => mwTrace = ExpectedOrder(mwCfg)
        /\ mwPc = "done" /\ mwCfg.HTTPMiddleware = <<>> => mwTrace = ExpectedOrder(mwCfg)

\* a request went through the defaults and two different caller middleware to the router
C22_Witness ==
    /\ mwPc = "done"
    /\ ~mwCfg.DoNotAddDefaultHTTPMiddleware
    /\ mwCfg.HTTPMiddleware = <<"B", "A">>
    /\ mwTrace = <<"Tracer", "Log", "Instrument", "B", "A", "router">>

(***************************************************************************)
(* Claims about the RPC duration metric.                                   *)
(***************************************************************************)
\* the label the metric is to carry for a handler's error
OutcomeLabel(e) ==
    IF e = NilError THEN "success"
    ELSE IF IsCanceled(e) THEN "cancel"
    ELSE IF HTTPResponseFromError(e).ok THEN ToString(HTTPResponseFromError(e).resp[1].Code)
    ELSE "error"

\* C23: every observed call is labelled by its outcome: "success" without an
\* error, "cancel" for a cancellation, the HTTP status code for an error that
\* carries a tunnelled response, "error" for any other error.
C23_OutcomeLabels == obsPc = "done" => obsLabel = OutcomeLabel(obsErr)

\* a handler ended by context.Canceled and the call was labelled "error"
C23_Witness ==
    /\ obsPc = "done"
    /\ obsErr = WrapsCanceled(<<>>)
    /\ obsLabel = "error"

\* what the interceptor does label as claimed: success, an error without a
\* status, and the error httpgrpc.Errorf makes of a code
C23_LabelledAsClaimed ==
    obsPc = "done" /\ (obsErr.kind \in {"nil", "error"} \/ obsErr \in {Errorf(402), Errorf(500)}) =>
        obsLabel = OutcomeLabel(obsErr)

(***************************************************************************)
(* Claims about cancelled calls.                                           *)
(***************************************************************************)
\* what holds of a call cancelled while its handler ran
CancelOutcome ==
    rpcCancelledRunning =>
        /\ rpcKind = "unary" /\ rpcCall = "returned" =>
               rpcCallErr.kind = "status" /\ rpcCallErr.Code = Canceled
        /\ rpcKind = "unary" /\ rpcSrv = "returned" /\ rpcSrvDone /\ rpcSrvErr # NilError =>
               IsCanceled(rpcSrvErr)
        /\ rpcKind = "stream" /\ rpcCall = "returned" => rpcCallErr = NilError

C25_TLSMaterial ==
    tlsPc = "done" =>
        /\ PathsSet(tlsIn) /\ InlineSet(tlsIn) => tlsOut.err # Nil
        /\ InlineSet(tlsIn) /\ ~PathsSet(tlsIn) /\ tlsLoadOK => tlsOut.tls /\ tlsOut.err = Nil

\* inline material alone was resolved to no TLS and no error
C25_Witness ==
    /\ tlsPc = "done"
    /\ InlineSet(tlsIn)
    /\ tlsIn.TLSCertPath = "" /\ tlsIn.TLSKeyPath = ""
    /\ tlsLoadOK
    /\ tlsOut = NoTLSResult

\* what the resolution does: TLS exactly from two paths that load, an error
\* exactly when they do not load, the inline fields never read
C25_PathsOnly ==
    tlsPc = "done" =>
        /\ tlsOut.tls <=> PathsSet(tlsIn) /\ tlsLoadOK
        /\ tlsOut.err # Nil <=> PathsSet(tlsIn) /\ ~tlsLoadOK

(***************************************************************************)
(* Claims about what Run leaves behind.                                    *)
(***************************************************************************)
\* a step that closes a socket, changes an engine or ends a serve loop
Disturbed ==
    \/ sock' # sock
    \/ eng' # eng
    \/ \E r \in ServingRoutines : pc[r] = "serving" /\ pc'[r] # "serving"

\* a step in which the serve loop of r ends of itself: its listener was
\* closed underneath it, or the mux it listens through has exited
EndsOfItself(r) ==
    /\ pc[r] = "serving"
    /\ ServeExit(r).can
    /\ pc'[r] = "reporting"
    /\ eng[r] = "new"

\* the environment closes a listener
ClosedUnderneath == \E p \in Protocols : sock[p] = "open" /\ sock'[p] = "closed" /\ pc' = pc /\ eng' = eng

\* C26: Run returning stops no sub-server.  The step in which Run returns
\* leaves every socket, engine and serving routine as it was, and from then
\* on, until Shutdown is called, a socket closes or a serve loop ends only
\* when a listener is closed underneath or the loop terminates of itself.
C26_RunLeavesServers ==
    [][ /\ runPc = "blocked" /\ runPc' = "returned" =>
               UNCHANGED <<srv, sock, eng, pc, inflight, shutPc>>
        /\ runPc = "returned" /\ shutPc = "idle" /\ shutPc' = "idle" /\ Disturbed =>
               \/ ClosedUnderneath
               \/ \E r \in ServingRoutines : EndsOfItself(r)
      ]_vars

\* Run has returned after a Stop, Shutdown was not called, and every
\* sub-server of a Server with the mux is serving on its open socket
C26_Witness ==
    /\ runPc = "returned"
    /\ quit
    /\ shutPc = "idle"
    /\ srv.grpchttpmux
    /\ \A r \in ServingRoutines : pc[r] = "serving"
    /\ \A p \in Protocols : sock[p] = "open"
    /\ \A r \in ServingRoutines : eng[r] = "new"

\* Run has returned the error of the RPC serve loop and the HTTP sub-server serves on
C26_WitnessFailure ==
    /\ runPc = "returned"
    /\ runResult # Nil
    /\ shutPc = "idle"
    /\ pc["grpc"] \in {"reporting", "done"}
    /\ pc["http"] = "serving"
    /\ sock["http"] = "open"

(***************************************************************************)
(* Claims about the sockets of a failed construction.                      *)
(***************************************************************************)
\* C27: when New returns an error, no socket it bound is still open.
C27_ListenersReleased ==
    newPc = "failed" => \A p \in Protocols : sock[p] # "open"

\* New failed in the RPC setup, bind or TLS, and the HTTP socket it had bound is open
C27_Witness ==
    /\ newPc = "failed"
    /\ newErr \in {ErrBind, ErrGRPCTLS}
    /\ srv = NoServer
    /\ sock["http"] = "open"

\* which sockets a failed New leaves open: the one whose own TLS resolution
\* failed, and the HTTP one when the RPC setup failed after it
C27_LeftOpen ==
    newPc = "failed" =>
        /\ sock["http"] = "open" <=>
               HTTPEnabled(cfg) /\ ~RouteNeedsBoth(cfg) /\ env.bindHTTP
        /\ sock["grpc"] = "open" <=>
               /\ GRPCEnabled(cfg) /\ ~RouteNeedsBoth(cfg) /\ env.bindGRPC
               /\ HTTPEnabled(cfg) => env.bindHTTP /\ (cfg.HTTPTLS => env.loadHTTP)

(***************************************************************************)
(* Claims about what Shutdown leaves behind.                               *)
(***************************************************************************)
\* the serve loop of r has returned
Terminated(r) == pc[r] \in {"reporting", "done"}

\* the engine behind r was told to stop: Shutdown or GracefulStop for the two
\* sub-servers, a closed root listener for the mux, a stop of
\* GRPCOnHTTPServer for the RPC-on-HTTP routine
AskedToStop(r) ==
    CASE r = "mux" -> sock["http"] = "closed"
      [] OTHER -> eng[r] # "new"

\* C28: once Shutdown has returned, every serving routine Run started has
\* been asked to stop and has terminated, the mux's serve loop and the
\* RPC-on-HTTP server among them.
C28_AllStopped ==
    shutPc = "returned" =>
        \A r \in ServingRoutines : pc[r] # "none" => AskedToStop(r) /\ Terminated(r)

\* Shutdown has returned on a Server with the mux, every serve loop has
\* ended and reported, and GRPCOnHTTPServer was never told to stop
C28_Witness ==
    /\ shutPc = "returned"
    /\ srv.grpchttpmux
    /\ \A r \in ServingRoutines : pc[r] = "done"
    /\ eng["grpcOnHTTP"] = "new"

\* what Shutdown does reach: the two sub-servers are told to stop.  The root
\* listener of the mux closes only when the HTTP serve loop closes its
\* listener, which may come after Shutdown has returned.
C28_SubServersAsked ==
    shutPc = "returned" =>
        \A r \in {"http", "grpc"} : pc[r] # "none" => AskedToStop(r)

\* every serve loop Run started ends in time after Shutdown has returned
C28_EventuallyTerminated ==
    shutPc = "returned" ~>
        \A r \in ServingRoutines : pc[r] \notin {"spawned", "serving"}

(***************************************************************************)
(* Claims about the capture of bad responses.                              *)
(***************************************************************************)
RECURSIVE CapturedBody(_)
\* the body bytes in a captured buffer
CapturedBody(buf) ==
    IF buf = <<>> THEN 0 ELSE Head(buf).n + CapturedBody(Tail(buf))

\* the truncation markers in a captured buffer
CapturedMarkers(buf) ==
    Cardinality({i \in 1..Len(buf) : buf[i].kind = "marker"})

\* C29: whatever WriteHeader and Write calls are made on a bad-response
\* logging writer, what it has captured is at most maxResponseBodyInLogs
\* bytes of body followed by at most one truncation marker, bodyBytesLeft is
\* never negative, and nothing is captured while the status is below 500.
C29_BoundedCapture ==
    /\ CapturedBody(buffer) <= maxResponseBodyInLogs
    /\ CapturedMarkers(buffer) <= 1
    /\ \A i \in 1..Len(buffer) : buffer[i].kind = "marker" => i = Len(buffer)
    /\ bodyBytesLeft >= 0
    /\ statusCode < 500 => buffer = <<>>

\* a 5xx response was written past the limit and its capture truncated
C29_Witness ==
    /\ logKind # "none"
    /\ statusCode >= 500
    /\ CapturedBody(buffer) = maxResponseBodyInLogs
    /\ CapturedMarkers(buffer) >= 1

\* what does hold: the captured body and the counter add up to the limit,
\* and no body follows a truncation marker
C29_BodyBounded ==
    /\ bodyBytesLeft >= 0
    /\ CapturedBody(buffer) + bodyBytesLeft = maxResponseBodyInLogs
    /\ \A i \in 1..Len(buffer) :
          buffer[i].kind = "marker" =>
              \A j \in i..Len(buffer) : buffer[j].kind = "marker"

\* the older writer puts a marker for every Write past the limit
C29_MarkerPerWrite ==
    /\ logKind = "badResponseLogger"
    /\ CapturedMarkers(buffer) >= 2

\* the newer writer puts a second marker once WriteHeader has set logBody again
C29_MarkerAfterWriteHeader ==
    /\ logKind = "badResponseLoggingWriter"
    /\ CapturedMarkers(buffer) >= 2

\* a captured body is held while the status is below 500
C29_CapturedBelow500 ==
    /\ logKind # "none"
    /\ statusCode < 500
    /\ buffer # <<>>

(***************************************************************************)
(* Claims about the injected IDs.                                          *)
(***************************************************************************)
\* C30: InjectOrgIDIntoHTTPRequest is idempotent: once it has succeeded on
\* a request, any further application with the same context succeeds and
\* leaves the org-ID header as it was; and when it fails with
\* ErrDifferentOrgIDPresent the header is unchanged and held, before the
\* call, a list different from the context's.
C30_Idempotent ==
    [][InjectOrgID =>
          /\ injApplied >= 1 => (injErr' = NoErr /\ reqOrgIDs' = reqOrgIDs)
          /\ injErr' = ErrDifferentOrgIDPresent =>
                 /\ reqOrgIDs' = reqOrgIDs
                 /\ reqOrgIDs # <<>>
                 /\ reqOrgIDs # injCtx.orgIDs]_vars

\* the injection has succeeded twice on one request
C30_Witness ==
    /\ injPc = "ready"
    /\ injApplied >= 2
    /\ injErr = NoErr

\* what does hold: the failure leaves the header alone and comes only on a
\* header that is set and differs from the context's list
C30_FailsOnlyOnDifferent ==
    [][InjectOrgID /\ injErr' = ErrDifferentOrgIDPresent =>
          /\ reqOrgIDs' = reqOrgIDs
          /\ reqOrgIDs # <<>>
          /\ reqOrgIDs # injCtx.orgIDs]_vars

\* after two successes the header holds the context's list twice over
C30_Doubled ==
    injApplied >= 2 => \E n \in 2..3 : Len(reqOrgIDs) = n * Len(injCtx.orgIDs)

\* the third application fails on the header the second one left
C30_ThirdFails ==
    /\ injPc = "ready"
    /\ injApplied = 2
    /\ injErr = ErrDifferentOrgIDPresent

\* InjectUserIDIntoHTTPRequest, which sets the header, is idempotent: where
\* it has succeeded, a further application succeeds and changes nothing
C30_UserIDIdempotent ==
    [][InjectUserID /\ injErr' = NoErr =>
          InjectUserIDIntoHTTPRequest(injCtx, reqUserID') =
              [header |-> reqUserID', err |-> NoErr]]_vars

====
